---- MODULE Spec2Model ----
(***************************************************************************)
(* ParkTime: time entries, the audit ledger and the permission policy.     *)
(*                                                                         *)
(* The database is three tables (employees, time_entries, audit_log).  A   *)
(* request works on a SQLAlchemy session, modelled as three layers: c, the *)
(* committed rows; f, the rows flushed inside the open transaction; w, the *)
(* objects of the unit of work.  flush sends w to f (applying the column   *)
(* defaults and onupdate hooks), commit makes f durable, close discards    *)
(* everything that was not committed.                                      *)
(*                                                                         *)
(* The identity service works on employees and user_sessions.  Each of its *)
(* methods either raises before it writes or commits before it returns, so *)
(* it is modelled on the committed rows.  validate_session reads a session *)
(* and writes it later in the same request; the two steps are separate     *)
(* actions of SpecAuth, so that other requests run between them.           *)
(***************************************************************************)
EXTENDS Integers, Sequences, FiniteSets, TLC

VARIABLES employees, entries, ledger, now, lastOp, sessions, pending, txns, call

vars == <<employees, entries, ledger, now, lastOp, sessions, pending, txns, call>>

(***************************** bounds **************************************)
MaxTime == 3
MaxEntries == 2
MaxEmployees == 5
MaxSessions == 2
\* validate_session calls that have read and not yet committed
MaxInflight == 1
\* the configured session lifetime (Settings.session_expire_minutes), in
\* units of the clock
session_expire_minutes == 1
\* concurrent requests that write the ledger, and the rows they write in all
MaxWriters == 2
MaxAuditRows == 3
\* clock readings per calendar day
TicksPerDay == 2

(***************************** values **************************************)
\* Python None for numeric / datetime columns and for string columns
None == -1
NoneStr == "None"
\* an absent snapshot / changed_fields (Python None)
NoValues == [k \in {} |-> "null"]
\* no call of a pure helper is under way
NoCall == [fn |-> "none"]

Last(s) == s[Len(s)]

MinutesPerDay == 24 * 60

Roles == {"employee", "manager", "admin"}

\* work_codes rows: id -> is_active (ids outside the domain do not exist)
WorkCodes == [w \in {1, 2, 3} |-> w # 3]

(*************************** serialisation *********************************)
TimeEntryColumns ==
    {"entry_id", "employee_id", "work_code_id", "entry_date", "start_time",
     "end_time", "hours", "notes", "is_deleted", "created_at", "created_by",
     "modified_at", "modified_by", "deleted_at", "deleted_by"}

EmployeeColumns ==
    {"employee_id", "username", "password_hash", "first_name", "last_name",
     "email", "role", "manager_id", "is_active", "created_at", "created_by"}

ColumnKind(c) ==
    CASE c \in {"entry_date"} -> "date"
      [] c \in {"start_time", "end_time", "created_at", "modified_at", "deleted_at"} -> "datetime"
      [] c \in {"hours"} -> "decimal"
      [] c \in {"is_deleted", "is_active"} -> "bool"
      [] c \in {"notes", "username", "password_hash", "first_name", "last_name",
                "email", "role"} -> "str"
      [] OTHER -> "int"

AUDITED_TABLES == {"time_entries", "employees", "work_codes", "business_rules"}
EXCLUDED_FIELDS == {"password_hash"}

\* _serialize_value: the JSON-ready rendering of a column value
serialize_value(kind, v) ==
    CASE kind = "bool" -> IF v THEN "true" ELSE "false"
      [] kind = "str" -> IF v = NoneStr THEN "null" ELSE "s:" \o v
      [] kind = "datetime" -> IF v = None THEN "null" ELSE "isoT:" \o ToString(v)
      [] kind = "date" -> IF v = None THEN "null" ELSE "iso:" \o ToString(v)
      [] kind = "decimal" -> IF v = None THEN "null" ELSE "float:" \o ToString(v)
      [] OTHER -> IF v = None THEN "null" ELSE ToString(v)

Columns(table) == IF table = "time_entries" THEN TimeEntryColumns ELSE EmployeeColumns

\* a snapshot of every column, the excluded ones as well
capture_state_all_columns(table, inst) ==
    [c \in Columns(table) |-> serialize_value(ColumnKind(c), inst[c])]

capture_state(table, inst) ==
    [c \in Columns(table) \ EXCLUDED_FIELDS |-> serialize_value(ColumnKind(c), inst[c])]

\* dict.get(key): None (JSON null) when the key is absent
dict_get(d, k) == IF k \in DOMAIN d THEN d[k] ELSE "null"

\* a diff that would list the fields that kept their value as well
diff_states_every_field(old_state, new_state) ==
    IF old_state = new_state THEN {} ELSE (DOMAIN old_state) \cup (DOMAIN new_state)

diff_states(old_state, new_state) ==
    {k \in (DOMAIN old_state) \cup (DOMAIN new_state) :
        dict_get(old_state, k) # dict_get(new_state, k)}

(****************************** rows ***************************************)
\* the seeded organisation: admin1, bob (manager), alice (bob's report),
\* dave (alice's report, so bob's grandchild)
Emp(id, username, role, manager_id) ==
    [employee_id |-> id, username |-> username, password_hash |-> "h0",
     first_name |-> username, last_name |-> "x", email |-> NoneStr,
     role |-> role, manager_id |-> manager_id, is_active |-> TRUE,
     created_at |-> 0, created_by |-> None]

SeedEmployees ==
    << Emp(1, "admin1", "admin", None), Emp(2, "bob", "manager", None),
       Emp(3, "alice", "employee", 2), Emp(4, "dave", "employee", 3) >>

Tables == [employees |-> employees, entries |-> entries, ledger |-> ledger]

(*************************** the session ***********************************)
\* SessionLocal(): a session on the committed tables (autoflush off)
SessionLocal(T) == [c |-> T, f |-> T, w |-> T]

\* the row a flush writes for time_entries row i
flush_entry(S, i, t) ==
    LET e == S.w.entries[i] IN
    IF i > Len(S.f.entries)
      THEN \* INSERT: autoincrement key, created_at default=datetime.utcnow
           [e EXCEPT !.entry_id = i,
                     !.created_at = IF @ = None THEN t ELSE @]
      ELSE IF e # S.f.entries[i] /\ e.modified_at = S.f.entries[i].modified_at
      THEN \* UPDATE without modified_at in SET: onupdate=datetime.utcnow
           [e EXCEPT !.modified_at = t]
      ELSE e

\* a flush that would stamp every audit row again
flush_audit_restamp(S, k, t) ==
    [S.w.ledger[k] EXCEPT !.audit_id = k, !.performed_at = t]

\* the row a flush writes for audit_log row k: performed_at default utcnow
flush_audit(S, k, t) ==
    LET r == S.w.ledger[k] IN
    IF k > Len(S.f.ledger) THEN [r EXCEPT !.audit_id = k, !.performed_at = t] ELSE r

flush_employee(S, i) ==
    LET e == S.w.employees[i] IN
    IF i > Len(S.f.employees) THEN [e EXCEPT !.employee_id = i] ELSE e

\* Session.flush() at clock reading t
db_flush(S, t) ==
    LET T == [employees |-> [i \in 1..Len(S.w.employees) |-> flush_employee(S, i)],
              entries |-> [i \in 1..Len(S.w.entries) |-> flush_entry(S, i, t)],
              ledger |-> [k \in 1..Len(S.w.ledger) |-> flush_audit(S, k, t)]]
    IN [c |-> S.c, f |-> T, w |-> T]

\* Session.commit(): flush, then make the transaction durable
db_commit(S, t) ==
    LET F == db_flush(S, t) IN [c |-> F.f, f |-> F.f, w |-> F.w]

\* Session.close() in get_db's finally: what was not committed is gone
db_close(S) == S.c

\* a session that would write an audit row in a transaction of its own
db_add_audit_autocommit(S, r) ==
    [S EXCEPT !.w.ledger = Append(@, r), !.f.ledger = Append(@, r),
              !.c.ledger = Append(@, r)]

\* Session.add(obj)
db_add_entry(S, e) == [S EXCEPT !.w.entries = Append(@, e)]
db_add_employee(S, e) == [S EXCEPT !.w.employees = Append(@, e)]
db_add_audit(S, r) == [S EXCEPT !.w.ledger = Append(@, r)]

(*************************** audit service *********************************)
get_primary_key(table, inst) ==
    IF table = "time_entries" THEN inst.entry_id ELSE inst.employee_id

\* json.dumps(values) if values else None
json_or_none(values) == IF DOMAIN values = {} THEN NoValues ELSE values

\* an audit row that would name the record instead of the actor
create_audit_entry_unattributed(table_name, record_id, action, performed_by, old_values, new_values, changed_fields) ==
    [audit_id |-> None, table_name |-> table_name, record_id |-> record_id,
     action |-> action, performed_by |-> record_id,
     old_values |-> json_or_none(old_values),
     new_values |-> json_or_none(new_values),
     changed_fields |-> changed_fields,
     performed_at |-> None]

create_audit_entry(table_name, record_id, action, performed_by, old_values, new_values, changed_fields) ==
    [audit_id |-> None, table_name |-> table_name, record_id |-> record_id,
     action |-> action, performed_by |-> performed_by,
     old_values |-> json_or_none(old_values),
     new_values |-> json_or_none(new_values),
     changed_fields |-> changed_fields,
     performed_at |-> None]

\* a log_insert that would not look at the allow-list
log_insert_unlisted(S, performed_by, table, inst) ==
    IF table \in AUDITED_TABLES
    THEN db_add_audit(S, create_audit_entry(table, get_primary_key(table, inst),
            "INSERT", performed_by, NoValues, capture_state(table, inst), {}))
    ELSE db_add_audit(S, create_audit_entry(table, inst.session_id, "INSERT",
            performed_by, NoValues, [session_id |-> ToString(inst.session_id)], {}))

log_insert(S, performed_by, table, inst) ==
    IF table \notin AUDITED_TABLES THEN S
    ELSE db_add_audit(S, create_audit_entry(table, get_primary_key(table, inst),
            "INSERT", performed_by, NoValues, capture_state(table, inst), {}))

log_update(S, performed_by, table, inst, old_state) ==
    IF table \notin AUDITED_TABLES THEN S
    ELSE LET new_state == capture_state(table, inst)
             changed_fields == diff_states(old_state, new_state)
         IN IF changed_fields = {} THEN S
            ELSE db_add_audit(S, create_audit_entry(table,
                    get_primary_key(table, inst), "UPDATE", performed_by,
                    old_state, new_state, changed_fields))

\* a log_delete that would store the snapshot as the new values
log_delete_as_new_values(S, performed_by, table, inst) ==
    IF table \notin AUDITED_TABLES THEN S
    ELSE db_add_audit(S, create_audit_entry(table, get_primary_key(table, inst),
            "DELETE", performed_by, NoValues, capture_state(table, inst), {}))

log_delete(S, performed_by, table, inst) ==
    IF table \notin AUDITED_TABLES THEN S
    ELSE db_add_audit(S, create_audit_entry(table, get_primary_key(table, inst),
            "DELETE", performed_by, capture_state(table, inst), NoValues, {}))

log_restore(S, performed_by, table, inst) ==
    IF table \notin AUDITED_TABLES THEN S
    ELSE db_add_audit(S, create_audit_entry(table, get_primary_key(table, inst),
            "RESTORE", performed_by, NoValues, capture_state(table, inst), {}))

(*************************** TimeEntry model *******************************)
\* calculated_hours: round(Decimal(seconds / 3600), 2), in hundredths of an
\* hour; times are minutes, so the quotient is never a tie
calculated_hours(e) ==
    IF e.start_time = None \/ e.end_time = None THEN None
    ELSE (10 * (e.end_time - e.start_time) + 3) \div 6

calculate_and_set_hours(e) ==
    IF calculated_hours(e) # None THEN [e EXCEPT !.hours = calculated_hours(e)] ELSE e

\* set_times_and_compute_hours: stores both times, the date of the start and
\* the computed hours
set_times_and_compute_hours(e, start_time, end_time) ==
    calculate_and_set_hours([e EXCEPT !.start_time = start_time,
                                      !.end_time = end_time,
                                      !.entry_date = start_time \div MinutesPerDay])

\* a soft delete and a restore that would touch the flag alone
soft_delete_flag_only(e, deleted_by_id, t) == [e EXCEPT !.is_deleted = TRUE]

restore_flag_only(e) == [e EXCEPT !.is_deleted = FALSE]

soft_delete(e, deleted_by_id, t) ==
    [e EXCEPT !.is_deleted = TRUE, !.deleted_at = t, !.deleted_by = deleted_by_id]

restore(e) ==
    [e EXCEPT !.is_deleted = FALSE, !.deleted_at = None, !.deleted_by = None]

\* TimeEntry(employee_id=, work_code_id=, notes=, created_by=)
NewTimeEntry(employee_id, work_code_id, notes, created_by) ==
    [entry_id |-> None, employee_id |-> employee_id, work_code_id |-> work_code_id,
     entry_date |-> None, start_time |-> None, end_time |-> None, hours |-> None,
     notes |-> notes, is_deleted |-> FALSE, created_at |-> None,
     created_by |-> created_by, modified_at |-> None, modified_by |-> None,
     deleted_at |-> None, deleted_by |-> None]

(************************* TimeEntryService ********************************)
\* what a service call hands back: the session, how the call ended ("ok" or
\* the exception raised) and the entry it was about
Result(S, status, id) == [S |-> S, status |-> status, id |-> id]

\* a lookup that would not filter soft-deleted rows
get_entry_unfiltered(S, entry_id, include_deleted) ==
    IF entry_id \in 1..Len(S.f.entries) THEN entry_id ELSE 0

\* get_entry: the row with that key, skipping soft-deleted rows unless asked;
\* 0 stands for None
get_entry(S, entry_id, include_deleted) ==
    IF /\ entry_id \in 1..Len(S.f.entries)
       /\ (include_deleted \/ ~S.f.entries[entry_id].is_deleted)
    THEN entry_id ELSE 0

\* a check that would take an inactive employee as well
validate_employee_exists_inactive_too(S, employee_id) ==
    employee_id \in 1..Len(S.f.employees)

validate_employee_exists(S, employee_id) ==
    /\ employee_id \in 1..Len(S.f.employees)
    /\ S.f.employees[employee_id].is_active

validate_work_code_exists(work_code_id) ==
    /\ work_code_id \in DOMAIN WorkCodes
    /\ WorkCodes[work_code_id]

\* a check of the times that would refuse a duration of exactly 24 hours
validate_times_error_below_24h(start_time, end_time) ==
    IF end_time <= start_time THEN "End time must be after start time"
    ELSE IF (end_time - start_time) >= 24 * 60
    THEN "Entry duration cannot exceed 24 hours"
    ELSE IF (end_time - start_time) * 4 < 60
    THEN "Entry duration must be at least 15 minutes"
    ELSE NoneStr

\* _validate_times: the ValueError it raises, NoneStr when it returns (times
\* in minutes, so duration_hours is (end - start) / 60)
validate_times_error(start_time, end_time) ==
    IF end_time <= start_time THEN "End time must be after start time"
    ELSE IF (end_time - start_time) > 24 * 60
    THEN "Entry duration cannot exceed 24 hours"
    ELSE IF (end_time - start_time) * 4 < 60
    THEN "Entry duration must be at least 15 minutes"
    ELSE NoneStr

validate_times(start_time, end_time) == validate_times_error(start_time, end_time) = NoneStr

\* the ValueError create_entry raises in its validation, NoneStr when it
\* passes: the employee, then the work code, then the times
create_entry_error(S, employee_id, work_code_id, start_time, end_time) ==
    IF ~validate_employee_exists(S, employee_id)
    THEN "Employee " \o ToString(employee_id) \o " not found or inactive"
    ELSE IF ~validate_work_code_exists(work_code_id)
    THEN "Work code " \o ToString(work_code_id) \o " not found or inactive"
    ELSE validate_times_error(start_time, end_time)

create_entry(S, user, t, employee_id, work_code_id, start_time, end_time, notes, fault) ==
    IF create_entry_error(S, employee_id, work_code_id, start_time, end_time) # NoneStr
    THEN Result(S, "validation", 0)
    ELSE LET entry == set_times_and_compute_hours(
                          NewTimeEntry(employee_id, work_code_id, notes, user),
                          start_time, end_time)
             S1 == db_flush(db_add_entry(S, entry), t)
             id == Len(S1.w.entries)
         IN IF fault = "audit" THEN Result(S1, "fault", id)
            ELSE Result(log_insert(S1, user, "time_entries", S1.w.entries[id]), "ok", id)

\* the assignments of update_entry up to the first ValueError, if any
update_fields(e, user, t, work_code_id, start_time, end_time, notes) ==
    LET wc_ok == work_code_id = None \/ validate_work_code_exists(work_code_id)
        e1 == IF work_code_id # None /\ wc_ok
              THEN [e EXCEPT !.work_code_id = work_code_id] ELSE e
        new_start == IF start_time # None THEN start_time ELSE e1.start_time
        new_end == IF end_time # None THEN end_time ELSE e1.end_time
        touch_times == start_time # None \/ end_time # None
        times_ok == ~touch_times \/ validate_times(new_start, new_end)
        e2 == IF touch_times /\ times_ok
              THEN set_times_and_compute_hours(e1, new_start, new_end) ELSE e1
        e3 == IF notes # NoneStr
              THEN [e2 EXCEPT !.notes = IF notes # "" THEN notes ELSE NoneStr] ELSE e2
        e4 == [e3 EXCEPT !.modified_at = t, !.modified_by = user]
    IN IF ~wc_ok
       THEN [e |-> e, ok |-> FALSE,
             error |-> "Work code " \o ToString(work_code_id) \o " not found or inactive"]
       ELSE IF ~times_ok
       THEN [e |-> e1, ok |-> FALSE, error |-> validate_times_error(new_start, new_end)]
       ELSE [e |-> e4, ok |-> TRUE, error |-> NoneStr]

update_entry(S, user, t, entry_id, work_code_id, start_time, end_time, notes, fault) ==
    LET id == get_entry(S, entry_id, FALSE) IN
    IF id = 0 THEN Result(S, "not_found", entry_id)
    ELSE LET old_state == capture_state("time_entries", S.w.entries[id])
             u == update_fields(S.w.entries[id], user, t, work_code_id,
                                start_time, end_time, notes)
             S1 == [S EXCEPT !.w.entries[id] = u.e]
         IN IF ~u.ok THEN Result(S1, "validation", id)
            ELSE IF fault = "audit" THEN Result(S1, "fault", id)
            ELSE Result(log_update(S1, user, "time_entries", S1.w.entries[id], old_state),
                        "ok", id)

\* a delete_entry that would log after the soft delete
delete_entry_log_after(S, user, t, entry_id, fault) ==
    LET id == get_entry(S, entry_id, FALSE) IN
    IF id = 0 THEN Result(S, "not_found", entry_id)
    ELSE IF fault = "audit" THEN Result(S, "fault", id)
    ELSE LET S1 == [S EXCEPT !.w.entries[id] = soft_delete(@, user, t)]
         IN Result(log_delete(S1, user, "time_entries", S1.w.entries[id]), "ok", id)

delete_entry(S, user, t, entry_id, fault) ==
    LET id == get_entry(S, entry_id, FALSE) IN
    IF id = 0 THEN Result(S, "not_found", entry_id)
    ELSE IF fault = "audit" THEN Result(S, "fault", id)
    ELSE LET S1 == log_delete(S, user, "time_entries", S.w.entries[id])
         IN Result([S1 EXCEPT !.w.entries[id] = soft_delete(@, user, t)], "ok", id)

restore_entry(S, user, t, entry_id, fault) ==
    LET id == get_entry(S, entry_id, TRUE) IN
    IF id = 0 THEN Result(S, "not_found", entry_id)
    ELSE IF ~S.w.entries[id].is_deleted THEN Result(S, "not_deleted", id)
    ELSE LET S1 == [S EXCEPT !.w.entries[id] =
                        [restore(@) EXCEPT !.modified_at = t, !.modified_by = user]]
         IN IF fault = "audit" THEN Result(S1, "fault", id)
            ELSE Result(log_restore(S1, user, "time_entries", S1.w.entries[id]), "ok", id)

(*************************** Employee model ********************************)
is_admin(u) == u.role = "admin"

\* "manager or admin" (require_manager's contract)
is_manager(u) == u.role \in {"manager", "admin"}

\* the employees whose manager reference is u: one level only
direct_reports(T, u) ==
    {i \in 1..Len(T.employees) : T.employees[i].manager_id = u.employee_id}

can_view_employee(T, u, target_employee_id) ==
    IF is_admin(u) THEN TRUE
    ELSE IF u.employee_id = target_employee_id THEN TRUE
    ELSE IF is_manager(u) THEN target_employee_id \in direct_reports(T, u)
    ELSE FALSE

(***************************** dependencies ********************************)
\* a policy that would also follow the manager reference a second level up
can_edit_transitively(T, target_employee_id, user) ==
    \/ can_view_employee(T, user, target_employee_id)
    \/ /\ is_manager(user)
       /\ target_employee_id \in 1..Len(T.employees)
       /\ LET m == T.employees[target_employee_id].manager_id
          IN m \in 1..Len(T.employees)
             /\ T.employees[m].manager_id = user.employee_id

can_edit_employee_time(T, target_employee_id, user) ==
    can_view_employee(T, user, target_employee_id)

\* an admin gate that would let managers through
require_admin_or_manager(user) == user.role \in {"manager", "admin"}

\* require_admin / require_manager: TRUE when the request is let through
require_admin(user) == is_admin(user)
require_manager(user) == is_manager(user)

(***************************** entry routes ********************************)
\* the caller owns the transaction: db.commit() once the service returned; an
\* exception on the way (fault) leaves the request without a commit
caller_commit(r, t, fault) ==
    IF r.status # "ok" THEN r
    ELSE IF fault = "before_commit" THEN Result(r.S, "fault", r.id)
    ELSE Result(db_commit(r.S, t), "ok", r.id)

\* keyword parameters of the service methods, and the keywords the routes of
\* routes/entries.py pass; a call binds only if every keyword is a parameter
UpdateEntryParams == {"entry_id", "work_code_id", "start_time", "end_time", "notes"}
UpdateEntryKeywords == {"entry_id", "entry_date", "work_code_id", "hours", "notes"}
call_binds(keywords, params) == keywords \subseteq params

\* the row the routes select: key matches and is_deleted == False; 0 for None
select_entry(S, entry_id) ==
    IF entry_id \in 1..Len(S.f.entries) /\ ~S.f.entries[entry_id].is_deleted
    THEN entry_id ELSE 0

\* PUT /entries/{entry_id}
route_update_entry(S, user, t, entry_id, form_ok, work_code_id, notes) ==
    LET id == select_entry(S, entry_id) IN
    IF id = 0 THEN Result(S, "404", entry_id)
    ELSE IF ~can_view_employee(S.f, user, S.f.entries[id].employee_id)
    THEN Result(S, "403", id)
    ELSE IF ~form_ok THEN Result(S, "400", id)
    ELSE IF ~call_binds(UpdateEntryKeywords, UpdateEntryParams)
    THEN Result(S, "TypeError", id)
    ELSE LET r == update_entry(S, user.employee_id, t, id, work_code_id, None, None,
                               notes, "none")
         IN IF r.status = "validation" THEN Result(r.S, "400", id)
            ELSE caller_commit(r, t, "none")

\* DELETE /entries/{entry_id}
route_delete_entry(S, user, t, entry_id, fault) ==
    LET id == select_entry(S, entry_id) IN
    IF id = 0 THEN Result(S, "404", entry_id)
    ELSE IF ~can_view_employee(S.f, user, S.f.entries[id].employee_id)
    THEN Result(S, "403", id)
    ELSE caller_commit(delete_entry(S, user.employee_id, t, id, fault), t, fault)

\* POST /team/employee/{employee_id}/entry
create_team_entry(S, user, t, employee_id, work_code_id, start_time, end_time, notes, fault) ==
    IF ~require_manager(user) THEN Result(S, "403", 0)
    ELSE IF employee_id \notin 1..Len(S.f.employees) THEN Result(S, "404", 0)
    ELSE IF ~can_view_employee(S.f, user, employee_id) THEN Result(S, "403", 0)
    ELSE IF end_time <= start_time THEN Result(S, "400", 0)
    ELSE LET r == create_entry(S, user.employee_id, t, employee_id, work_code_id,
                               start_time, end_time, notes, fault)
         IN IF r.status = "validation" THEN Result(r.S, "400", 0)
            ELSE caller_commit(r, t, fault)

(***************************** admin routes ********************************)
\* parse_optional_int over the form strings the model submits
parse_optional_int(value) ==
    CASE value = "" -> None
      [] value = "1" -> 1
      [] value = "2" -> 2
      [] value = "3" -> 3
      [] OTHER -> None

\* the form string that parses to a stored manager reference
manager_form(manager_id) ==
    CASE manager_id = 1 -> "1"
      [] manager_id = 2 -> "2"
      [] manager_id = 3 -> "3"
      [] OTHER -> ""

\* str.strip().lower() over the usernames the model submits
strip_lower(x) ==
    CASE x = " Eve " -> "eve"
      [] x = "Eve" -> "eve"
      [] x = "Alice" -> "alice"
      [] x = " alice" -> "alice"
      [] OTHER -> x

\* str.strip() over the names the model submits
strip(x) ==
    CASE x = " " -> ""
      [] x = " Eve " -> "Eve"
      [] OTHER -> x

\* select(Employee).where(Employee.username == username): some row matches
username_taken(S, username, except_id) ==
    \E i \in 1..Len(S.f.employees) :
        i # except_id /\ S.f.employees[i].username = username

\* the unique index ix_employees_username, checked when rows are flushed
unique_usernames(S) ==
    \A i, j \in 1..Len(S.w.employees) :
        S.w.employees[i].username = S.w.employees[j].username => i = j

\* POST /admin/employees
create_employee(S, user, t, username, first_name, last_name, email, role, manager_id, fault) ==
    IF ~require_admin(user) THEN Result(S, "403", 0)
    ELSE IF \/ username_taken(S, username, 0)
            \/ role \notin Roles
            \/ strip(first_name) = ""
            \/ strip(last_name) = ""
    THEN Result(S, "400", 0)
    ELSE LET new_employee ==
                 [employee_id |-> None, username |-> strip_lower(username),
                  password_hash |-> NoneStr, first_name |-> strip(first_name),
                  last_name |-> strip(last_name),
                  email |-> IF email # NoneStr /\ email # "" THEN strip(email) ELSE NoneStr,
                  role |-> role, manager_id |-> parse_optional_int(manager_id),
                  is_active |-> TRUE, created_at |-> t,
                  created_by |-> user.employee_id]
             S0 == db_add_employee(S, new_employee)
         IN IF ~unique_usernames(S0) THEN Result(S0, "IntegrityError", 0)
            ELSE LET S1 == db_flush(S0, t)
                     id == Len(S1.w.employees)
                 IN IF fault = "audit" THEN Result(S1, "fault", id)
                    ELSE LET S2 == log_insert(S1, user.employee_id, "employees",
                                              S1.w.employees[id])
                         IN IF fault = "before_commit" THEN Result(S2, "fault", id)
                            ELSE Result(db_commit(S2, t), "ok", id)

\* POST /admin/employees/{employee_id}
update_employee(S, user, t, employee_id, username, first_name, last_name, email, role, manager_id, is_active, fault) ==
    IF ~require_admin(user) THEN Result(S, "403", employee_id)
    ELSE IF employee_id \notin 1..Len(S.f.employees) THEN Result(S, "404", employee_id)
    ELSE IF \/ username_taken(S, username, employee_id)
            \/ strip(first_name) = ""
            \/ strip(last_name) = ""
            \/ (employee_id = user.employee_id /\ role # "admin")
            \/ (employee_id = user.employee_id /\ ~is_active)
    THEN Result(S, "400", employee_id)
    ELSE LET old_state == capture_state("employees", S.w.employees[employee_id])
             S1 == [S EXCEPT !.w.employees[employee_id] =
                        [@ EXCEPT !.username = strip_lower(username),
                                  !.first_name = strip(first_name),
                                  !.last_name = strip(last_name),
                                  !.email = IF email # NoneStr /\ email # ""
                                            THEN strip(email) ELSE NoneStr,
                                  !.role = role,
                                  !.manager_id = parse_optional_int(manager_id),
                                  !.is_active = is_active]]
         IN IF fault = "audit" THEN Result(S1, "fault", employee_id)
            ELSE LET S2 == log_update(S1, user.employee_id, "employees",
                                      S1.w.employees[employee_id], old_state)
                 IN IF ~unique_usernames(S2) THEN Result(S2, "IntegrityError", employee_id)
                    ELSE IF fault = "before_commit" THEN Result(S2, "fault", employee_id)
                    ELSE Result(db_commit(S2, t), "ok", employee_id)

(************************** identity service *******************************)
\* what the identity service reads and writes: the committed rows
AuthTables == [employees |-> employees, sessions |-> sessions]

\* the outcome of a call: the rows it leaves, what it returns (None when it
\* returns nothing or raises), the text of the AuthenticationError it raised
AuthResult(db, result, error) == [db |-> db, result |-> result, error |-> error]

\* pwd_context.hash: the salt is drawn inside the library and kept in the hash
hash_password(plain_password) == "h" \o plain_password

\* pwd_context.verify; a value that is no hash raises inside, which is False
verify_password(plain_password, hashed_password) ==
    IF hashed_password \in {NoneStr, ""} THEN FALSE
    ELSE hashed_password = hash_password(plain_password)

\* select(Employee).where(Employee.username == username).scalar_one_or_none()
employee_by_username(db, username) ==
    {i \in 1..Len(db.employees) : db.employees[i].username = username}

\* an authenticate that would tell an unknown username from a wrong password
authenticate_disclosing(db, username, password) ==
    LET found == employee_by_username(db, username) IN
    IF found = {} THEN AuthResult(db, None, "Unknown username")
    ELSE LET employee == db.employees[CHOOSE i \in found : TRUE] IN
         IF ~employee.is_active THEN AuthResult(db, None, "Account is inactive")
         ELSE IF employee.password_hash \in {NoneStr, ""}
         THEN AuthResult(db, None, "Account has no password set")
         ELSE IF ~verify_password(password, employee.password_hash)
         THEN AuthResult(db, None, "Invalid username or password")
         ELSE AuthResult(db, employee.employee_id, NoneStr)

\* an authenticate that would let a deactivated account in
authenticate_inactive_too(db, username, password) ==
    LET found == employee_by_username(db, username) IN
    IF found = {} THEN AuthResult(db, None, "Invalid username or password")
    ELSE LET employee == db.employees[CHOOSE i \in found : TRUE] IN
         IF employee.password_hash \in {NoneStr, ""}
         THEN AuthResult(db, None, "Account has no password set")
         ELSE IF ~verify_password(password, employee.password_hash)
         THEN AuthResult(db, None, "Invalid username or password")
         ELSE AuthResult(db, employee.employee_id, NoneStr)

authenticate(db, username, password) ==
    LET found == employee_by_username(db, username) IN
    IF found = {} THEN AuthResult(db, None, "Invalid username or password")
    ELSE LET employee == db.employees[CHOOSE i \in found : TRUE] IN
         IF ~employee.is_active THEN AuthResult(db, None, "Account is inactive")
         ELSE IF employee.password_hash \in {NoneStr, ""}
         THEN AuthResult(db, None, "Account has no password set")
         ELSE IF ~verify_password(password, employee.password_hash)
         THEN AuthResult(db, None, "Invalid username or password")
         ELSE AuthResult(db, employee.employee_id, NoneStr)

\* secrets.token_hex(32): the values a call may return. Tokens are only ever
\* compared, so one value stands for all that no session holds yet; the
\* others are the tokens of the sessions there are
generate_session_token(db) ==
    {"tok" \o ToString(Len(db.sessions) + 1)}
        \cup {db.sessions[k].session_token : k \in 1..Len(db.sessions)}

\* UserSession(...) as the INSERT stores it: autoincrement key, is_active
\* default True, the nullable columns None
UserSession(session_id, employee_id, session_token, expires_at, created_at) ==
    [session_id |-> session_id, employee_id |-> employee_id,
     session_token |-> session_token, expires_at |-> expires_at,
     is_active |-> TRUE, created_at |-> created_at, last_activity_at |-> None,
     logged_out_at |-> None, ip_address |-> NoneStr, user_agent |-> NoneStr]

\* an INSERT into a table that would have no unique index on the token
insert_session_unchecked(db, session) ==
    AuthResult([db EXCEPT !.sessions = Append(@, session)], session.session_id, NoneStr)

\* db.add(session); db.commit(): the unique index ix_user_sessions_token
\* refuses a token that a stored session holds
insert_session(db, session) ==
    IF \E k \in 1..Len(db.sessions) :
          db.sessions[k].session_token = session.session_token
    THEN AuthResult(db, None, "IntegrityError")
    ELSE AuthResult([db EXCEPT !.sessions = Append(@, session)],
                    session.session_id, NoneStr)

\* login, with the token that generate_session_token returned
login(db, username, password, t, session_token) ==
    LET a == authenticate(db, username, password) IN
    IF a.error # NoneStr THEN a
    ELSE LET expires_at == t + session_expire_minutes
             session == UserSession(Len(db.sessions) + 1, a.result, session_token,
                                    expires_at, t)
         IN insert_session(db, session)

\* select(UserSession).where(session_token == ...).where(is_active == True)
active_session_by_token(db, session_token) ==
    {k \in 1..Len(db.sessions) : /\ db.sessions[k].session_token = session_token
                                 /\ db.sessions[k].is_active}

\* select(UserSession).where(session_token == ...)
session_by_token(db, session_token) ==
    {k \in 1..Len(db.sessions) : db.sessions[k].session_token = session_token}

\* a lookup of the session's employee that would not ask for an active account
employee_of_session_any(db, employee_id) ==
    {i \in 1..Len(db.employees) : db.employees[i].employee_id = employee_id}

\* select(Employee).where(employee_id == ...).where(is_active == True)
active_employee(db, employee_id) ==
    {i \in 1..Len(db.employees) : /\ db.employees[i].employee_id = employee_id
                                  /\ db.employees[i].is_active}

\* session.expires_at < datetime.utcnow()
expired(expires_at, t) == expires_at < t

\* a validation that would refuse an expired session and leave it active
validate_read_no_sweep(db, session_token, t) ==
    LET found == active_session_by_token(db, session_token) IN
    IF found = {} THEN [session_id |-> 0, write |-> "none", result |-> None]
    ELSE LET session == db.sessions[CHOOSE k \in found : TRUE] IN
         IF expired(session.expires_at, t) \/ active_employee(db, session.employee_id) = {}
         THEN [session_id |-> session.session_id, write |-> "none", result |-> None]
         ELSE [session_id |-> session.session_id, write |-> "last_activity_at",
               result |-> session.employee_id]

\* a validation that would end the session of an inactive employee
validate_read_ending_inactive(db, session_token, t) ==
    LET found == active_session_by_token(db, session_token) IN
    IF found = {} THEN [session_id |-> 0, write |-> "none", result |-> None]
    ELSE LET session == db.sessions[CHOOSE k \in found : TRUE] IN
         IF expired(session.expires_at, t) \/ active_employee(db, session.employee_id) = {}
         THEN [session_id |-> session.session_id, write |-> "is_active", result |-> None]
         ELSE [session_id |-> session.session_id, write |-> "last_activity_at",
               result |-> session.employee_id]

\* validate_session up to its write: the session it loaded, the attribute it
\* is about to set, and what it will return
validate_read(db, session_token, t) ==
    LET found == active_session_by_token(db, session_token) IN
    IF found = {} THEN [session_id |-> 0, write |-> "none", result |-> None]
    ELSE LET session == db.sessions[CHOOSE k \in found : TRUE] IN
         IF expired(session.expires_at, t)
         THEN [session_id |-> session.session_id, write |-> "is_active", result |-> None]
         ELSE IF active_employee(db, session.employee_id) = {}
         THEN [session_id |-> session.session_id, write |-> "none", result |-> None]
         ELSE [session_id |-> session.session_id, write |-> "last_activity_at",
               result |-> session.employee_id]

\* a commit that would stamp the activity of an expired session as well
validate_write_touch_always(db, p, t) ==
    CASE p.write = "is_active" ->
            [db EXCEPT !.sessions[p.session_id].is_active = FALSE,
                       !.sessions[p.session_id].last_activity_at = t]
      [] p.write = "last_activity_at" ->
            [db EXCEPT !.sessions[p.session_id].last_activity_at = t]
      [] OTHER -> db

\* a commit that would write the whole object as it was loaded (here: active)
validate_write_whole_row(db, p, t) ==
    CASE p.write = "is_active" -> [db EXCEPT !.sessions[p.session_id].is_active = FALSE]
      [] p.write = "last_activity_at" ->
            [db EXCEPT !.sessions[p.session_id].last_activity_at = t,
                       !.sessions[p.session_id].is_active = TRUE]
      [] OTHER -> db

\* the commit of validate_session: UPDATE user_sessions SET <the attribute
\* that was set> WHERE session_id = ...
validate_write(db, p, t) ==
    CASE p.write = "is_active" -> [db EXCEPT !.sessions[p.session_id].is_active = FALSE]
      [] p.write = "last_activity_at" ->
            [db EXCEPT !.sessions[p.session_id].last_activity_at = t]
      [] OTHER -> db

\* validate_session with no other request between its read and its commit
validate_session(db, session_token, t) ==
    LET p == validate_read(db, session_token, t) IN
    AuthResult(validate_write(db, p, t), p.result, NoneStr)

logout(db, session_token, t) ==
    LET found == session_by_token(db, session_token) IN
    IF found = {} THEN AuthResult(db, FALSE, NoneStr)
    ELSE LET k == CHOOSE k \in found : TRUE IN
         AuthResult([db EXCEPT !.sessions[k].is_active = FALSE,
                               !.sessions[k].logged_out_at = t], TRUE, NoneStr)

\* a logout_all_sessions that would end every active session of every employee
logout_everyone(db, employee_id, t) ==
    LET result == {k \in 1..Len(db.sessions) : db.sessions[k].is_active} IN
    AuthResult([db EXCEPT !.sessions =
                   [k \in 1..Len(db.sessions) |->
                       IF k \in result
                       THEN [db.sessions[k] EXCEPT !.is_active = FALSE,
                                                   !.logged_out_at = t]
                       ELSE db.sessions[k]]],
               Cardinality(result), NoneStr)

logout_all_sessions(db, employee_id, t) ==
    LET result == {k \in 1..Len(db.sessions) :
                      /\ db.sessions[k].employee_id = employee_id
                      /\ db.sessions[k].is_active} IN
    AuthResult([db EXCEPT !.sessions =
                   [k \in 1..Len(db.sessions) |->
                       IF k \in result
                       THEN [db.sessions[k] EXCEPT !.is_active = FALSE,
                                                   !.logged_out_at = t]
                       ELSE db.sessions[k]]],
               Cardinality(result), NoneStr)

set_password(db, employee_id, new_password) ==
    AuthResult([db EXCEPT !.employees[employee_id].password_hash =
                              hash_password(new_password)], None, NoneStr)

\* a change_password that would set the new hash before it verifies
change_password_unverified(db, employee_id, current_password, new_password) ==
    LET s == set_password(db, employee_id, new_password) IN
    IF ~verify_password(current_password, db.employees[employee_id].password_hash)
    THEN AuthResult(s.db, None, "Current password is incorrect")
    ELSE s

\* a change_password that would end the employee's sessions as well
change_password_cascade(db, employee_id, current_password, new_password) ==
    IF ~verify_password(current_password, db.employees[employee_id].password_hash)
    THEN AuthResult(db, None, "Current password is incorrect")
    ELSE LET s == set_password(db, employee_id, new_password) IN
         AuthResult([s.db EXCEPT !.sessions =
                        [k \in 1..Len(db.sessions) |->
                            IF db.sessions[k].employee_id = employee_id
                            THEN [db.sessions[k] EXCEPT !.is_active = FALSE]
                            ELSE db.sessions[k]]], None, NoneStr)

change_password(db, employee_id, current_password, new_password) ==
    IF ~verify_password(current_password, db.employees[employee_id].password_hash)
    THEN AuthResult(db, None, "Current password is incorrect")
    ELSE set_password(db, employee_id, new_password)

\* POST /login: login, then the request's metadata on the new session
login_submit(db, username, password, t, session_token) ==
    LET r == login(db, username, password, t, session_token) IN
    IF r.error # NoneStr THEN r
    ELSE AuthResult([r.db EXCEPT !.sessions[r.result].ip_address = "ip",
                                 !.sessions[r.result].user_agent = "ua"],
                    r.result, NoneStr)

\* POST /admin/employees/{employee_id}/reset-password
reset_employee_password(db, user, employee_id, new_password, confirm_password, t) ==
    IF ~require_admin(user) THEN AuthResult(db, None, "403")
    ELSE IF employee_id \notin 1..Len(db.employees) THEN AuthResult(db, None, "404")
    ELSE IF new_password # confirm_password THEN AuthResult(db, None, "400")
    ELSE logout_all_sessions(set_password(db, employee_id, new_password).db,
                             employee_id, t)

(****************************** inputs *************************************)
Faults == {"none", "audit", "before_commit"}
\* in the entry routes the commit follows the service call at once
RouteFaults == {"none", "audit"}

\* callers of the service outside the routes (scripts, the documented usage)
ServiceUsers == {1, 3}
RouteUsers == {2, 3}
TeamUsers == {1, 2, 3}
AdminUsers == {1, 2}
TargetEmployees == {3, 4, 9}
CreateTimes == {<<480, 960>>, <<480, 485>>}

CreateArg(employee_id, work_code_id, start_time, end_time, notes) ==
    [employee_id |-> employee_id, work_code_id |-> work_code_id,
     start_time |-> start_time, end_time |-> end_time, notes |-> notes]

CreateArgs ==
    { CreateArg(3, 1, 480, 960, "a"), CreateArg(9, 1, 480, 960, "a"),
      CreateArg(3, 3, 480, 960, "a"), CreateArg(3, 1, 480, 485, NoneStr) }

UpdateArg(work_code_id, start_time, end_time, notes) ==
    [work_code_id |-> work_code_id, start_time |-> start_time,
     end_time |-> end_time, notes |-> notes]

UpdateArgs ==
    { UpdateArg(None, None, None, NoneStr), UpdateArg(None, None, 990, "late"),
      UpdateArg(3, None, None, NoneStr), UpdateArg(2, None, 470, NoneStr) }

EntryIds == 1..MaxEntries

\* get_current_user: only an active employee holds a valid session
LoggedIn(U) == {u \in U : employees[u].is_active}

\* the admin form for employee i: the stored values with one field overridden
EmployeeForm(i, override) ==
    LET e == employees[i] IN
    [username |-> IF override = " alice" THEN " alice" ELSE e.username,
     first_name |-> e.first_name, last_name |-> e.last_name,
     email |-> e.email,
     role |-> IF override \in {"manager", "admin", "employee"} THEN override ELSE e.role,
     manager_id |-> CASE override = "self_managed" -> manager_form(i)
                      [] override = "under_alice" -> "3"
                      [] OTHER -> manager_form(e.manager_id),
     is_active |-> CASE override = "inactive" -> FALSE
                     [] override = "active" -> TRUE
                     [] OTHER -> e.is_active]

Overrides == {"same", "manager", "inactive"}
NewUsernames == {"eve", "alice"}

(****************************** actions ************************************)
TypeOK ==
    /\ now \in 0..MaxTime
    /\ Len(entries) <= MaxEntries
    /\ Len(ledger) <= now
    /\ Len(employees) <= MaxEmployees
    /\ lastOp.actor \in 0..MaxEmployees

Init ==
    /\ employees = SeedEmployees
    /\ entries = << >>
    /\ ledger = << >>
    /\ now = 0
    /\ lastOp = [op |-> "init", actor |-> 0, id |-> 0]
    /\ sessions = << >>
    /\ pending = {}
    /\ txns = {}
    /\ call = NoCall

\* the request ends and the session is closed. A request that succeeded leaves
\* the committed tables and its response; one that ended in an error leaves
\* what close() leaves of it. The clock moves on between two requests.
Respond(op, actor, r) ==
    /\ employees' = db_close(r.S).employees
    /\ entries' = db_close(r.S).entries
    /\ ledger' = db_close(r.S).ledger
    /\ IF r.status = "ok"
       THEN /\ lastOp' = [op |-> op, actor |-> actor, id |-> r.id]
            /\ now' = now + 1
       ELSE UNCHANGED <<lastOp, now>>
    /\ UNCHANGED <<sessions, pending, txns, call>>

\* requests in flight count as well
Room == now + Cardinality(txns) < MaxTime

CreateEntry ==
    /\ Room /\ Len(entries) < MaxEntries
    /\ \E user \in ServiceUsers, a \in CreateArgs, fault \in Faults :
          Respond("create_entry", user,
                  caller_commit(create_entry(SessionLocal(Tables), user, now,
                                             a.employee_id, a.work_code_id,
                                             a.start_time, a.end_time, a.notes, fault),
                                now, fault))

UpdateEntry ==
    /\ Room
    /\ \E user \in ServiceUsers, id \in EntryIds, a \in UpdateArgs, fault \in Faults :
          Respond("update_entry", user,
                  caller_commit(update_entry(SessionLocal(Tables), user, now, id,
                                             a.work_code_id, a.start_time, a.end_time,
                                             a.notes, fault), now, fault))

DeleteEntry ==
    /\ Room
    /\ \E user \in ServiceUsers, id \in EntryIds, fault \in Faults :
          Respond("delete_entry", user,
                  caller_commit(delete_entry(SessionLocal(Tables), user, now, id, fault),
                                now, fault))

RestoreEntry ==
    /\ Room
    /\ \E user \in ServiceUsers, id \in EntryIds, fault \in Faults :
          Respond("restore_entry", user,
                  caller_commit(restore_entry(SessionLocal(Tables), user, now, id, fault),
                                now, fault))

RouteUpdateEntry ==
    /\ Room
    /\ \E u \in LoggedIn(RouteUsers), id \in EntryIds, form_ok \in BOOLEAN :
          Respond("route_update_entry", u,
                  route_update_entry(SessionLocal(Tables), employees[u], now, id,
                                     form_ok, 2, "late"))

RouteDeleteEntry ==
    /\ Room
    /\ \E u \in LoggedIn(RouteUsers), id \in EntryIds, fault \in RouteFaults :
          Respond("route_delete_entry", u,
                  route_delete_entry(SessionLocal(Tables), employees[u], now, id, fault))

CreateTeamEntry ==
    /\ Room /\ Len(entries) < MaxEntries
    /\ \E u \in LoggedIn(TeamUsers), emp \in TargetEmployees, tm \in CreateTimes,
          fault \in RouteFaults :
          Respond("create_team_entry", u,
                  create_team_entry(SessionLocal(Tables), employees[u], now, emp, 1,
                                    tm[1], tm[2], NoneStr, fault))

CreateEmployee ==
    /\ Room /\ Len(employees) < MaxEmployees
    /\ \E u \in LoggedIn(AdminUsers), username \in NewUsernames, fault \in Faults :
          Respond("create_employee", u,
                  create_employee(SessionLocal(Tables), employees[u], now, username,
                                  "Eve", "E", NoneStr, "employee", "2", fault))

UpdateEmployee ==
    /\ Room
    /\ \E u \in LoggedIn(AdminUsers), i \in {1, 3}, o \in Overrides, fault \in Faults :
          LET form == EmployeeForm(i, o) IN
          Respond("update_employee", u,
                  update_employee(SessionLocal(Tables), employees[u], now, i,
                                  form.username, form.first_name, form.last_name,
                                  form.email, form.role, form.manager_id,
                                  form.is_active, fault))

Next ==
    \/ CreateEntry
    \/ UpdateEntry
    \/ DeleteEntry
    \/ RestoreEntry
    \/ RouteUpdateEntry
    \/ RouteDeleteEntry
    \/ CreateTeamEntry
    \/ CreateEmployee
    \/ UpdateEmployee

Spec == Init /\ [][Next]_vars

(************************ identity: inputs and actions *********************)
Usernames == {"alice", "admin1", "eve", "ghost"}
Passwords == {"0", "1"}
Tokens == {"tok" \o ToString(k) : k \in 1..MaxSessions} \cup {"bogus"}
SessionOwners == {1, 3}

Tick ==
    /\ now < MaxTime
    /\ now' = now + 1
    /\ UNCHANGED <<employees, entries, ledger, lastOp, sessions, pending, txns, call>>

\* the call returns (or raises) and leaves the rows it committed
AuthRespond(r) ==
    /\ employees' = r.db.employees
    /\ sessions' = r.db.sessions
    /\ UNCHANGED <<entries, ledger, now, lastOp, pending, txns, call>>

Login ==
    \E username \in Usernames, password \in Passwords,
       session_token \in generate_session_token(AuthTables) :
        LET r == login_submit(AuthTables, username, password, now, session_token) IN
        /\ r.error # NoneStr \/ Len(sessions) < MaxSessions
        /\ AuthRespond(r)

\* validate_session reads; a call with nothing to write returns at once
ValidateRead ==
    \E session_token \in Tokens :
        LET p == validate_read(AuthTables, session_token, now) IN
        IF p.write = "none"
        THEN AuthRespond(AuthResult(AuthTables, p.result, NoneStr))
        ELSE /\ Cardinality(pending) < MaxInflight
             /\ pending' = pending \cup {[token |-> session_token, p |-> p]}
             /\ UNCHANGED <<employees, entries, ledger, now, lastOp, sessions, txns, call>>

\* validate_session commits what it set and returns
ValidateCommit ==
    \E v \in pending :
        /\ pending' = pending \ {v}
        /\ employees' = employees
        /\ sessions' = validate_write(AuthTables, v.p, now).sessions
        /\ UNCHANGED <<entries, ledger, now, lastOp, txns, call>>

Logout ==
    \E session_token \in Tokens :
        AuthRespond(logout(AuthTables, session_token, now))

LogoutAllSessions ==
    \E employee_id \in SessionOwners :
        AuthRespond(logout_all_sessions(AuthTables, employee_id, now))

ChangePassword ==
    \E employee_id \in {3}, current_password \in Passwords :
        AuthRespond(change_password(AuthTables, employee_id, current_password, "1"))

ResetEmployeePassword ==
    \E u \in LoggedIn(AdminUsers), confirm_password \in Passwords :
        AuthRespond(reset_employee_password(AuthTables, employees[u], 3, "0",
                                            confirm_password, now))

\* the admin creates eve, who has no password until one is set for her
RegisterEmployee ==
    /\ Room /\ Len(employees) < MaxEmployees
    /\ Respond("create_employee", 1,
               create_employee(SessionLocal(Tables), employees[1], now, "eve",
                               "Eve", "E", NoneStr, "employee", "2", "none"))

\* the admin deactivates alice
DeactivateEmployee ==
    /\ Room
    /\ LET form == EmployeeForm(3, "inactive") IN
       Respond("update_employee", 1,
               update_employee(SessionLocal(Tables), employees[1], now, 3,
                               form.username, form.first_name, form.last_name,
                               form.email, form.role, form.manager_id,
                               form.is_active, "none"))

NextAuth ==
    \/ Tick
    \/ Login
    \/ ValidateRead
    \/ ValidateCommit
    \/ Logout
    \/ LogoutAllSessions
    \/ ChangePassword
    \/ DeactivateEmployee

\* sessions under the clock: they are issued, validated, ended and they expire
SpecAuth == Init /\ [][NextAuth]_vars

NextLogin ==
    \/ RegisterEmployee
    \/ DeactivateEmployee
    \/ ResetEmployeePassword
    \/ Login
    \/ ChangePassword
    \/ Logout

\* credentials: accounts are created, deactivated and given passwords
SpecLogin == Init /\ [][NextLogin]_vars



NextEntries ==
    \/ CreateEntry
    \/ UpdateEntry
    \/ DeleteEntry
    \/ DeactivateEmployee

\* the time entry service while an employee may be deactivated
SpecEntries == Init /\ [][NextEntries]_vars

(********************* audit helpers: inputs and actions *******************)
\* the columns of the snapshots handed to _diff_states
SnapshotFields == {"notes", "deleted_by"}

\* dicts from some of the columns to a JSON value of the column (a snapshot
\* read back from the ledger, or built by a caller, need not have every column)
Snapshots ==
    UNION {{d \in [D -> {"null", "s:a", "s:b", "1", "2"}] :
                \A k \in D : d[k] \in IF k = "notes" THEN {"null", "s:a", "s:b"}
                                                     ELSE {"null", "1", "2"}} :
           D \in SUBSET SnapshotFields}

InitDiff ==
    /\ employees = SeedEmployees
    /\ entries = << >>
    /\ ledger = << >>
    /\ now = 0
    /\ lastOp = [op |-> "init", actor |-> 0, id |-> 0]
    /\ sessions = << >>
    /\ pending = {}
    /\ txns = {}
    /\ call \in {[fn |-> "diff_states", old_state |-> a, new_state |-> b,
                   done |-> FALSE, result |-> {}] : a, b \in Snapshots}

\* _diff_states(old_state, new_state) returns
DiffStates ==
    /\ call.fn = "diff_states" /\ ~call.done
    /\ call' = [call EXCEPT !.done = TRUE,
                            !.result = diff_states(call.old_state, call.new_state)]
    /\ UNCHANGED <<employees, entries, ledger, now, lastOp, sessions, pending, txns>>

NextDiff == DiffStates

\* the comparison of two snapshots, for every pair of snapshots
SpecDiff == InitDiff /\ [][NextDiff]_vars


(****************** the ledger under concurrent requests *******************)
\* Column(default=datetime.utcnow): the ORM evaluates the default in the
\* request's thread when it prepares the INSERT
default_performed_at(r, t) == [r EXCEPT !.performed_at = t]

\* the autoincrement key the database gives the next inserted audit row
next_audit_id ==
    1 + Len(ledger) + Cardinality({x \in txns : x.row.audit_id # None})

\* SELECT ... ORDER BY audit_id over the committed rows and the row r
by_audit_id(L, r) ==
    SelectSeq(L, LAMBDA x : x.audit_id < r.audit_id) \o <<r>>
        \o SelectSeq(L, LAMBDA x : x.audit_id > r.audit_id)

\* a request has logged a change of employee i and flushes: the audit row
\* gets its performed_at
AuditFlushDefault ==
    \E tid \in 1..MaxWriters, performed_by \in {1, 2}, i \in {3, 4} :
        /\ \A x \in txns : x.tid # tid
        /\ Len(ledger) + Cardinality(txns) < MaxAuditRows
        /\ LET S == log_insert(SessionLocal(Tables), performed_by, "employees",
                               employees[i]) IN
           txns' = txns \cup {[tid |-> tid,
                                row |-> default_performed_at(Last(S.w.ledger), now)]}
        /\ UNCHANGED <<employees, entries, ledger, now, lastOp, sessions, pending, call>>

\* the INSERT of the flush reaches the database: the row gets its audit_id
AuditFlushInsert ==
    \E x \in txns :
        /\ x.row.audit_id = None
        /\ txns' = (txns \ {x}) \cup {[x EXCEPT !.row.audit_id = next_audit_id]}
        /\ UNCHANGED <<employees, entries, ledger, now, lastOp, sessions, pending, call>>

\* the request commits: its row is in the ledger
AuditCommit ==
    \E x \in txns :
        /\ x.row.audit_id # None
        /\ txns' = txns \ {x}
        /\ ledger' = by_audit_id(ledger, x.row)
        /\ UNCHANGED <<employees, entries, now, lastOp, sessions, pending, call>>

NextLedger ==
    \/ Tick
    \/ AuditFlushDefault
    \/ AuditFlushInsert
    \/ AuditCommit

\* requests that write audit rows side by side, each in its own session
SpecLedger == Init /\ [][NextLedger]_vars

(********************* admin requests side by side *************************)
\* Each request has a session of its own from get_db; nothing orders two
\* requests. A handler reads and checks the rows its session loaded, and its
\* commit writes what it changed: the UPDATE of a row sets the columns the
\* handler changed against the loaded row, an INSERT adds the new rows, which
\* get the next keys. No column versions a row.
commit_concurrent(T, before, after) ==
    LET merged(cur, b, a) ==
            [i \in 1..Len(cur) |->
                IF i <= Len(b)
                THEN [c \in DOMAIN cur[i] |->
                         IF a[i][c] # b[i][c] THEN a[i][c] ELSE cur[i][c]]
                ELSE cur[i]]
        added(b, a) == SubSeq(a, Len(b) + 1, Len(a))
        new_employees == added(before.employees, after.employees)
        new_entries == added(before.entries, after.entries)
        new_audit == added(before.ledger, after.ledger)
    IN [employees |->
            merged(T.employees, before.employees, after.employees)
            \o [k \in 1..Len(new_employees) |->
                   [new_employees[k] EXCEPT !.employee_id = Len(T.employees) + k]],
        entries |->
            merged(T.entries, before.entries, after.entries)
            \o [k \in 1..Len(new_entries) |->
                   [new_entries[k] EXCEPT !.entry_id = Len(T.entries) + k]],
        ledger |->
            T.ledger
            \o [k \in 1..Len(new_audit) |->
                   [new_audit[k] EXCEPT !.audit_id = Len(T.ledger) + k]]]

\* the forms the admins submit: employee and the field that is changed
AdminForms ==
    { <<2, "admin">>, <<1, "manager">>, <<2, "manager">>, <<1, "inactive">>,
      <<2, "inactive">>, <<2, "under_alice">>, <<3, "self_managed">>,
      <<4, " alice">> }

\* the transaction of a request whose handler went through to its commit
Inflight(tid, op, actor, r) ==
    [tid |-> tid, op |-> op, actor |-> actor, id |-> r.id,
     before |-> Tables, after |-> db_close(r.S)]

\* an admin request runs its handler on the rows it loaded
AdminRequest ==
    \E tid \in 1..MaxWriters, u \in LoggedIn(AdminUsers) :
        /\ \A x \in txns : x.tid # tid
        /\ Room
        /\ \/ \E a \in AdminForms :
                 LET form == EmployeeForm(a[1], a[2])
                     r == update_employee(SessionLocal(Tables), employees[u], now, a[1],
                                          form.username, form.first_name, form.last_name,
                                          form.email, form.role, form.manager_id,
                                          form.is_active, "none")
                 IN /\ r.status = "ok"
                    /\ txns' = txns \cup {Inflight(tid, "update_employee", u, r)}
           \/ /\ Len(employees) < MaxEmployees
              /\ LET r == create_employee(SessionLocal(Tables), employees[u], now, "eve",
                                          "Eve", "E", NoneStr, "employee", "2", "none")
                 IN /\ r.status = "ok"
                    /\ txns' = txns \cup {Inflight(tid, "create_employee", u, r)}
        /\ UNCHANGED <<employees, entries, ledger, now, lastOp, sessions, pending, call>>

\* the commit of a request reaches the database; the unique index on
\* employees.username refuses it when it would store a username twice
RequestCommit ==
    \E x \in txns :
        LET T == commit_concurrent(Tables, x.before, x.after) IN
        /\ txns' = txns \ {x}
        /\ now' = now + 1
        /\ IF unique_usernames(SessionLocal(T))
           THEN /\ employees' = T.employees
                /\ entries' = T.entries
                /\ ledger' = T.ledger
                /\ lastOp' = [op |-> x.op, actor |-> x.actor, id |-> x.id]
           ELSE /\ lastOp' = [op |-> "IntegrityError", actor |-> x.actor, id |-> x.id]
                /\ UNCHANGED <<employees, entries, ledger>>
        /\ UNCHANGED <<sessions, pending, call>>

NextAdmin ==
    \/ AdminRequest
    \/ RequestCommit

SpecAdmin == Init /\ [][NextAdmin]_vars

(******************** entry requests side by side **************************)
\* the changes two requests make to the same entry
RaceArgs == {UpdateArg(None, None, 990, NoneStr), UpdateArg(2, None, None, NoneStr)}

\* a request on a stored entry runs the service method on the row it loaded;
\* the caller's db.commit() comes later
EntryRequest ==
    \E tid \in 1..MaxWriters, user \in ServiceUsers, id \in 1..Len(entries) :
        /\ \A x \in txns : x.tid # tid
        /\ Room
        /\ \/ \E a \in RaceArgs :
                 LET r == caller_commit(update_entry(SessionLocal(Tables), user, now, id,
                                            a.work_code_id, a.start_time, a.end_time,
                                            a.notes, "none"), now, "none")
                 IN /\ r.status = "ok"
                    /\ txns' = txns \cup {Inflight(tid, "update_entry", user, r)}
           \/ LET r == caller_commit(delete_entry(SessionLocal(Tables), user, now, id,
                                                  "none"), now, "none")
              IN /\ r.status = "ok"
                 /\ txns' = txns \cup {Inflight(tid, "delete_entry", user, r)}
        /\ UNCHANGED <<employees, entries, ledger, now, lastOp, sessions, pending, call>>

NextRace ==
    \/ CreateEntry
    \/ EntryRequest
    \/ RequestCommit

SpecRace == Init /\ [][NextRace]_vars


(***************************** audit queries *******************************)
\* the rows of the audit_log table
Rows(L) == {L[k] : k \in 1..Len(L)}

\* ORDER BY performed_at ASC / DESC: every listing of rows R the database may
\* give (rows of equal performed_at come in any order)
order_by_performed_at(R, descending) ==
    {s \in [1..Cardinality(R) -> R] :
        /\ \A j, k \in 1..Cardinality(R) : s[j] = s[k] => j = k
        /\ \A k \in 1..(Cardinality(R) - 1) :
              IF descending THEN s[k].performed_at >= s[k + 1].performed_at
              ELSE s[k].performed_at <= s[k + 1].performed_at}

\* .limit(limit).offset(offset)
limit_offset(s, limit, offset) ==
    SubSeq(s, offset + 1, IF offset + limit < Len(s) THEN offset + limit ELSE Len(s))

\* datetime.combine(d, datetime.min.time()) and
\* datetime.combine(d, datetime.max.time()): the first and the last reading
\* of the clock on day d
combine_min(d) == d * TicksPerDay
combine_max(d) == d * TicksPerDay + (TicksPerDay - 1)

get_record_history(L, table_name, record_id) ==
    order_by_performed_at({r \in Rows(L) : /\ r.table_name = table_name
                                           /\ r.record_id = record_id}, FALSE)

get_changes_by_user(L, employee_id, limit, offset) ==
    {limit_offset(s, limit, offset) :
        s \in order_by_performed_at({r \in Rows(L) : r.performed_by = employee_id}, TRUE)}

\* hours is counted in readings of the clock; NoneStr is a filter not given
get_recent_changes(L, t, hours, table_name, action, limit) ==
    LET cutoff == t - hours IN
    {limit_offset(s, limit, 0) :
        s \in order_by_performed_at(
                 {r \in Rows(L) : /\ r.performed_at >= cutoff
                                  /\ table_name # NoneStr => r.table_name = table_name
                                  /\ action # NoneStr => r.action = action}, TRUE)}

\* a range query that would end at the first instant of end_date
get_changes_in_date_range_to_midnight(L, start_date, end_date, table_name) ==
    order_by_performed_at(
        {r \in Rows(L) : /\ r.performed_at >= combine_min(start_date)
                         /\ r.performed_at <= combine_min(end_date)
                         /\ table_name # NoneStr => r.table_name = table_name}, FALSE)

get_changes_in_date_range(L, start_date, end_date, table_name) ==
    order_by_performed_at(
        {r \in Rows(L) : /\ r.performed_at >= combine_min(start_date)
                         /\ r.performed_at <= combine_max(end_date)
                         /\ table_name # NoneStr => r.table_name = table_name}, FALSE)

(**************************** properties ***********************************)
\* the audit records of one record, oldest first (performed_at grows with
\* the ledger position)
RecordsOf(table, id) ==
    SelectSeq(ledger, LAMBDA r : r.table_name = table /\ r.record_id = id)


InsertActions == {"create_entry", "create_team_entry", "create_employee"}
UpdateActions == {"update_entry", "route_update_entry", "update_employee"}
DeleteActions == {"delete_entry", "route_delete_entry"}
RestoreActions == {"restore_entry"}

EntryAudited(i) ==
    LET recs == RecordsOf("time_entries", i)
        e == entries[i]
    IN /\ Len(recs) >= 1
       /\ recs[1].action = "INSERT"
       /\ \A k \in 2..Len(recs) : recs[k].action # "INSERT"
       /\ e.is_deleted <=> Last(recs).action = "DELETE"
       /\ ~e.is_deleted => Last(recs).new_values = capture_state("time_entries", e)

EmployeeAudited(i) ==
    LET recs == RecordsOf("employees", i) IN
    /\ i > Len(SeedEmployees) => Len(recs) >= 1 /\ recs[1].action = "INSERT"
    /\ recs # << >> => Last(recs).new_values = capture_state("employees", employees[i])

NoOrphanRecord ==
    \A k \in 1..Len(ledger) :
        ledger[k].record_id \in
            1..(IF ledger[k].table_name = "time_entries" THEN Len(entries)
                ELSE Len(employees))

RecordIffAudit ==
    /\ \A i \in 1..Len(entries) : EntryAudited(i)
    /\ \A i \in 1..Len(employees) : EmployeeAudited(i)
    /\ NoOrphanRecord

\* C1: a record change and its audit record are committed together or not at
\* all. In every committed state each time entry and each created or updated
\* employee has the audit records of its changes and every audit record has its
\* record; a request that did not commit (validation error, failed audit
\* write, exception before the caller's commit) leaves the three tables as
\* they were.
C1_RecordAndAuditAtomic ==
    /\ []RecordIffAudit
    /\ [][now' = now => UNCHANGED <<employees, entries, ledger>>]_vars

\* a committed entry with its audit record, and a service call that has staged
\* a second entry and its audit record in the open transaction while the
\* committed tables are untouched
C1_Witness ==
    /\ Len(entries) = 1 /\ Len(ledger) >= 1
    /\ LET r == create_entry(SessionLocal(Tables), 3, now, 3, 1, 480, 960, "a", "none")
       IN /\ r.status = "ok"
          /\ Len(r.S.f.entries) = 2
          /\ Len(r.S.w.ledger) = Len(ledger) + 1
          /\ db_close(r.S) = Tables

\* what one committed request has done to the ledger
OneAuditRecord ==
    LET op == lastOp'.op
        id == lastOp'.id
        table == IF op \in {"create_employee", "update_employee"}
                 THEN "employees" ELSE "time_entries"
        action == CASE op \in InsertActions -> "INSERT"
                    [] op \in UpdateActions -> "UPDATE"
                    [] op \in DeleteActions -> "DELETE"
                    [] OTHER -> "RESTORE"
        changed == IF table = "employees" THEN employees' # employees
                   ELSE entries' # entries
    IN IF action = "UPDATE" /\ ~changed THEN ledger' = ledger
       ELSE /\ changed
            /\ Len(ledger') = Len(ledger) + 1
            /\ SubSeq(ledger', 1, Len(ledger)) = ledger
            /\ Last(ledger').table_name = table
            /\ Last(ledger').record_id = id
            /\ Last(ledger').action = action
            /\ Last(ledger').performed_by = lastOp'.actor

CommittedUpdate(user, id, a) ==
    db_close(caller_commit(update_entry(SessionLocal(Tables), user, now, id,
                                        a.work_code_id, a.start_time, a.end_time,
                                        a.notes, "none"), now, "none").S)

\* the arguments that repeat what entry e stores
StoredArgs(e) ==
    UpdateArg(e.work_code_id, e.start_time, e.end_time, e.notes)

\* C3: an update that changes no field value adds no audit record: update_entry
\* on an active entry with every optional argument omitted, or with the stored
\* values, and the admin update of an employee that resubmits the stored
\* values, leave the ledger as it is.
C3_NoOpUpdateAddsNoRecord ==
    /\ \A user \in ServiceUsers, id \in 1..Len(entries) :
          ~entries[id].is_deleted =>
             \A a \in {UpdateArg(None, None, None, NoneStr), StoredArgs(entries[id])} :
                CommittedUpdate(user, id, a).ledger = ledger
    /\ \A i \in 1..Len(employees) :
          LET form == EmployeeForm(i, "same") IN
          db_close(update_employee(SessionLocal(Tables), employees[1], now, i,
                                   form.username, form.first_name, form.last_name,
                                   form.email, form.role, form.manager_id,
                                   form.is_active, "none").S).ledger = ledger

\* one audit record applied to a replayed field map: INSERT and RESTORE carry
\* the whole new field map, UPDATE the new values of the changed fields, and a
\* DELETE record carries no new values
ApplyRecord(state, r) ==
    CASE r.action \in {"INSERT", "RESTORE"} -> r.new_values
      [] r.action = "UPDATE" ->
            [k \in DOMAIN state \cup r.changed_fields |->
                IF k \in r.changed_fields THEN r.new_values[k] ELSE state[k]]
      [] OTHER -> state

RECURSIVE ReplayFrom(_, _, _)
ReplayFrom(state, recs, k) ==
    IF k > Len(recs) THEN state ELSE ReplayFrom(ApplyRecord(state, recs[k]), recs, k + 1)

\* the replay of a record's history, starting from its INSERT record
Replay(recs) == ReplayFrom(recs[1].new_values, recs, 2)

\* the replay reconstructs every entry that is not soft-deleted
ReplayWhileActive ==
    \A i \in 1..Len(entries) :
        ~entries[i].is_deleted =>
            Replay(RecordsOf("time_entries", i)) = capture_state("time_entries", entries[i])

\* C4: for every record, replaying its audit records from the INSERT record in
\* performed_at order gives the snapshot of the record's current state, also
\* while the record is soft-deleted.
C4_ReplayEqualsSnapshot ==
    /\ \A i \in 1..Len(entries) :
          Replay(RecordsOf("time_entries", i)) = capture_state("time_entries", entries[i])
    /\ \A i \in (Len(SeedEmployees) + 1)..Len(employees) :
          Replay(RecordsOf("employees", i)) = capture_state("employees", employees[i])

Life(es, i) ==
    IF i \notin 1..Len(es) THEN "absent"
    ELSE IF es[i].is_deleted THEN "deleted" ELSE "active"

\* the lifecycle steps a committed request can make
LifecycleStep ==
    \A i \in EntryIds :
        /\ Life(entries, i) # "absent" => Life(entries', i) # "absent"
        /\ Life(entries, i) = "absent" => Life(entries', i) \in {"absent", "active"}
        /\ Life(entries, i) = "active" /\ Life(entries', i) = "deleted"
              => lastOp'.op \in DeleteActions /\ lastOp'.id = i /\ now' # now
        /\ Life(entries, i) = "deleted" /\ Life(entries', i) = "active"
              => lastOp'.op \in RestoreActions /\ lastOp'.id = i /\ now' # now

\* a service call that ends in the given error and has staged nothing
FailsWith(r, status) == r.status = status /\ r.S = SessionLocal(Tables)

\* the calls the lifecycle refuses
LifecycleRefusals ==
    \A user \in ServiceUsers, i \in EntryIds, fault \in Faults :
        LET S == SessionLocal(Tables) IN
        /\ Life(entries, i) \in {"absent", "deleted"} =>
              /\ \A a \in UpdateArgs :
                    FailsWith(update_entry(S, user, now, i, a.work_code_id, a.start_time,
                                           a.end_time, a.notes, fault), "not_found")
              /\ FailsWith(delete_entry(S, user, now, i, fault), "not_found")
        /\ Life(entries, i) = "absent" =>
              FailsWith(restore_entry(S, user, now, i, fault), "not_found")
        /\ Life(entries, i) = "active" =>
              FailsWith(restore_entry(S, user, now, i, fault), "not_deleted")

\* C6: a time entry moves only along absent -> active <-> deleted: only a
\* delete makes an active entry deleted, only restore_entry makes a deleted
\* entry active, no entry is ever removed; update_entry and delete_entry on an
\* absent or deleted entry and restore_entry on an absent entry end in "not
\* found", restore_entry on an active entry ends in "not deleted", and each of
\* these calls leaves the entry and the ledger untouched.
C6_EntryLifecycle ==
    /\ []LifecycleRefusals
    /\ [][LifecycleStep]_vars

\* an entry that was deleted and has just been restored, while the second entry
\* is still absent
C6_Witness ==
    /\ Len(entries) = 1 /\ Life(entries, 1) = "active" /\ Life(entries, 2) = "absent"
    /\ lastOp.op = "restore_entry" /\ lastOp.id = 1
    /\ \E k \in 1..Len(ledger) : ledger[k].action = "DELETE" /\ ledger[k].record_id = 1
    /\ FailsWith(restore_entry(SessionLocal(Tables), 1, now, 1, "none"), "not_deleted")
    /\ FailsWith(delete_entry(SessionLocal(Tables), 1, now, 2, "none"), "not_found")

\* C7: for every time entry, is_deleted holds exactly when deleted_at is set
\* and exactly when deleted_by is set.
C7_DeleteTriState ==
    \A i \in 1..Len(entries) :
        /\ entries[i].is_deleted <=> entries[i].deleted_at # None
        /\ entries[i].is_deleted <=> entries[i].deleted_by # None

\* an entry deleted by one user beside an entry that is active
C7_Witness ==
    \E i, j \in 1..Len(entries) :
        /\ entries[i].is_deleted /\ entries[i].deleted_by \in ServiceUsers \cup RouteUsers
        /\ entries[i].deleted_at # None
        /\ ~entries[j].is_deleted /\ entries[j].deleted_at = None

DeleteTracking == {"is_deleted", "deleted_at", "deleted_by"}
ModifiedTracking == {"modified_at", "modified_by"}

\* entry id after delete_entry by user and then restore_entry by restorer, each
\* a committed request of its own
DeleteThenRestore(user, restorer, id) ==
    LET T1 == db_close(caller_commit(delete_entry(SessionLocal(Tables), user, now, id,
                                                  "none"), now, "none").S)
        T2 == db_close(caller_commit(restore_entry(SessionLocal(T1), restorer, now + 1,
                                                   id, "none"), now + 1, "none").S)
    IN T2.entries[id]

DeleteTrackingReset(e) ==
    ~e.is_deleted /\ e.deleted_at = None /\ e.deleted_by = None

\* C8 as stated: delete_entry then restore_entry on an active entry leaves every
\* field except the delete-tracking fields as it was, and those reset.
C8_RestoreUndoesDelete ==
    \A user \in ServiceUsers, restorer \in ServiceUsers, id \in 1..Len(entries) :
        ~entries[id].is_deleted =>
            LET e == DeleteThenRestore(user, restorer, id) IN
            /\ DeleteTrackingReset(e)
            /\ \A c \in TimeEntryColumns \ DeleteTracking : e[c] = entries[id][c]

\* C8: delete_entry then restore_entry on an active entry leaves every field
\* except the delete-tracking fields and modified_at / modified_by as it was;
\* the delete-tracking fields reset, modified_by is the restoring user and
\* modified_at the time of the restore.
C8_RestoreUndoesDeleteButModified ==
    \A user \in ServiceUsers, restorer \in ServiceUsers, id \in 1..Len(entries) :
        ~entries[id].is_deleted =>
            LET e == DeleteThenRestore(user, restorer, id) IN
            /\ DeleteTrackingReset(e)
            /\ \A c \in TimeEntryColumns \ (DeleteTracking \cup ModifiedTracking) :
                  e[c] = entries[id][c]
            /\ e.modified_by = restorer
            /\ e.modified_at = now + 1

\* an entry created by alice, deleted, and restored by admin1: its delete
\* tracking is reset and its modified_by is admin1
C8_Witness ==
    /\ lastOp.op = "restore_entry" /\ lastOp.actor = 1
    /\ LET e == entries[lastOp.id]
           recs == RecordsOf("time_entries", lastOp.id)
       IN /\ Len(recs) = 3 /\ recs[2].action = "DELETE" /\ recs[3].action = "RESTORE"
          /\ DeleteTrackingReset(e)
          /\ e.created_by = 3 /\ e.modified_by = 1
          /\ recs[2].old_values["modified_by"] = "null"

\* the policy as stated: admin, or self, or a manager and the target's manager
\* reference is the actor
PolicyAsStated(a, t) ==
    \/ a.role = "admin"
    \/ a.employee_id = t
    \/ a.role = "manager" /\ employees[t].manager_id = a.employee_id

\* C9: for every actor and every target employee, the permission check is true
\* exactly when the actor is an admin, or is the target, or is a manager and
\* the target's manager reference is the actor's id; a manager has no
\* permission on a direct report's own direct report.
C9_PermissionPolicy ==
    \A a \in 1..Len(employees), t \in 1..Len(employees) :
        can_edit_employee_time(Tables, t, employees[a]) <=> PolicyAsStated(employees[a], t)

\* alice has been made a manager: she may act on her report dave, bob may act
\* on his report alice but not on dave, and dave on nobody but himself
C9_Witness ==
    /\ lastOp.op = "update_employee"
    /\ employees[3].role = "manager" /\ employees[4].manager_id = 3
    /\ can_edit_employee_time(Tables, 4, employees[3])
    /\ can_edit_employee_time(Tables, 3, employees[2])
    /\ ~can_edit_employee_time(Tables, 4, employees[2])
    /\ ~can_edit_employee_time(Tables, 3, employees[4])
    /\ can_edit_employee_time(Tables, 4, employees[4])

\* a route request that ends in the given status and commits nothing
EndsWith(r, status) == r.status = status /\ db_close(r.S) = Tables

\* the requests of user u on the active entry id: update and delete
DeniedOnEntry(u, id) ==
    /\ EndsWith(route_update_entry(SessionLocal(Tables), employees[u], now, id,
                                    TRUE, 2, "late"), "403")
    /\ EndsWith(route_delete_entry(SessionLocal(Tables), employees[u], now, id,
                                    "none"), "403")

AllowedOnEntry(u, id) ==
    /\ route_update_entry(SessionLocal(Tables), employees[u], now, id,
                           TRUE, 2, "late").status = "ok"
    /\ route_delete_entry(SessionLocal(Tables), employees[u], now, id,
                           "none").status = "ok"

TeamEntryRequest(u, emp) ==
    create_team_entry(SessionLocal(Tables), employees[u], now, emp, 1, 480, 960,
                      NoneStr, "none")

\* a request without permission on an existing target is denied, and nothing
\* is created or changed
DeniedNotNotFound ==
    /\ \A u \in LoggedIn(1..Len(employees)), id \in 1..Len(entries) :
          ~entries[id].is_deleted
          /\ ~can_view_employee(Tables, employees[u], entries[id].employee_id)
            => DeniedOnEntry(u, id)
    /\ \A u \in LoggedIn(1..Len(employees)), emp \in 1..Len(employees) :
          ~can_view_employee(Tables, employees[u], emp)
            => EndsWith(TeamEntryRequest(u, emp), "403")

\* C10: in the routes that update or delete a time entry or create one for a
\* team member, a user without permission on the owner of an existing,
\* not deleted target gets permission-denied and nothing is created or
\* changed, and the same request of a manager on a direct report succeeds.
C10_DeniedElseSucceeds ==
    /\ DeniedNotNotFound
    /\ \A u \in LoggedIn(1..Len(employees)), id \in 1..Len(entries) :
          ~entries[id].is_deleted /\ employees[u].role = "manager"
          /\ entries[id].employee_id \in direct_reports(Tables, employees[u])
            => AllowedOnEntry(u, id)
    /\ \A u \in LoggedIn(1..Len(employees)), emp \in 1..Len(employees) :
          employees[u].role = "manager" /\ emp \in direct_reports(Tables, employees[u])
          /\ employees[emp].is_active /\ Len(entries) < MaxEntries
            => TeamEntryRequest(u, emp).status = "ok"

\* bob is denied on the entry of dave, deletes the entry of his report alice,
\* and his update of that entry ends in a TypeError
C10_Witness ==
    \E i, j \in 1..Len(entries) :
        /\ entries[i].employee_id = 4 /\ ~entries[i].is_deleted
        /\ DeniedOnEntry(2, i)
        /\ entries[j].employee_id = 3 /\ ~entries[j].is_deleted
        /\ route_delete_entry(SessionLocal(Tables), employees[2], now, j,
                               "none").status = "ok"
        /\ EndsWith(route_update_entry(SessionLocal(Tables), employees[2], now, j,
                                        TRUE, 2, "late"), "TypeError")

(************************ properties: identity *****************************)
\* the sessions a token names (at most one: tokens are never issued twice)
Named(session_token) ==
    {k \in 1..Len(sessions) : sessions[k].session_token = session_token}

\* the employee a session belongs to is an active account
OwnerActive(k) == employees[sessions[k].employee_id].is_active

\* C11: validate_session(token) returns the session's actor if and only if a
\* session with that token exists, is active, now < expires_at (strictly), and
\* the actor is active; in every other case it returns None.
C11_ValidatesIffStrictlyBeforeExpiry ==
    \A session_token \in Tokens :
        LET r == validate_session(AuthTables, session_token, now)
            valid == {k \in Named(session_token) :
                         /\ sessions[k].is_active
                         /\ now < sessions[k].expires_at
                         /\ OwnerActive(k)}
        IN IF valid # {}
           THEN \A k \in valid : r.result = sessions[k].employee_id
           ELSE r.result = None

\* at the very instant of expiry the session still validates and is touched
C11_Witness ==
    \E k \in 1..Len(sessions) :
        /\ sessions[k].is_active /\ OwnerActive(k)
        /\ now = sessions[k].expires_at
        /\ LET r == validate_session(AuthTables, sessions[k].session_token, now) IN
           /\ r.result = sessions[k].employee_id
           /\ r.db.sessions[k].last_activity_at = now

\* no step turns an inactive session active, removes a session or gives it
\* another token
ActiveOnlyFalls ==
    /\ Len(sessions') >= Len(sessions)
    /\ \A k \in 1..Len(sessions) :
          /\ sessions'[k].session_token = sessions[k].session_token
          /\ ~sessions[k].is_active => ~sessions'[k].is_active

\* a validate_session call that starts on an inactive session, now or at any
\* later reading of the clock, returns None
InactiveNeverValidates ==
    \A k \in 1..Len(sessions), t \in now..MaxTime :
        ~sessions[k].is_active =>
            validate_session(AuthTables, sessions[k].session_token, t).result = None

\* C12: a session's active flag only ever goes from true to false. Under every
\* interleaving of login, validate_session (its read and its commit taken
\* apart), logout, logout_all_sessions and change_password, no step sets an
\* inactive session back to active, and a validate_session call that starts
\* after the session was ended returns None.
C12_ActiveFlagOneWay == [][ActiveOnlyFalls]_vars /\ []InactiveNeverValidates

\* a validation that read the session before a logout has committed its
\* last_activity_at after it; the session stays logged out
C12_Witness ==
    \E k \in 1..Len(sessions) :
        /\ ~sessions[k].is_active
        /\ sessions[k].logged_out_at # None
        /\ sessions[k].last_activity_at > sessions[k].logged_out_at
        /\ validate_session(AuthTables, sessions[k].session_token, now).result = None

\* C13: for an active session whose expiry has passed (expires_at < now), the
\* first validate_session(token) returns None and sets the session inactive,
\* changing nothing else; every later validate_session(token), at any later
\* reading of the clock, returns None and changes no field of any row. The
\* same holds in every state for every session that is already inactive.
C13_ExpiryDetectedOnce ==
    \A k \in 1..Len(sessions) :
        LET session_token == sessions[k].session_token
            first == validate_session(AuthTables, session_token, now)
        IN /\ sessions[k].is_active /\ sessions[k].expires_at < now =>
                /\ first.result = None
                /\ first.db = [AuthTables EXCEPT !.sessions[k].is_active = FALSE]
                /\ \A t \in now..MaxTime :
                      LET later == validate_session(first.db, session_token, t) IN
                      later.result = None /\ later.db = first.db
           /\ ~sessions[k].is_active =>
                \A t \in now..MaxTime :
                    LET later == validate_session(AuthTables, session_token, t) IN
                    later.result = None /\ later.db = AuthTables

\* a session that a validation found expired and made inactive (no logout
\* stamped it), next to a session that is expired and still active
C13_Witness ==
    \E k, j \in 1..Len(sessions) :
        /\ ~sessions[k].is_active /\ sessions[k].logged_out_at = None
        /\ sessions[k].expires_at < now
        /\ sessions[j].is_active /\ sessions[j].expires_at < now

\* what a validate_session call may do to the sessions: when it returns the
\* employee, stamp last_activity_at of the session it loaded with the clock;
\* when it returns None, leave every last_activity_at alone
TouchOnly(before, after, session_id, result, t) ==
    IF result # None
    THEN after = [before EXCEPT ![session_id].last_activity_at = t]
    ELSE /\ Len(after) = Len(before)
         /\ \A k \in 1..Len(before) : after[k].last_activity_at = before[k].last_activity_at

\* a whole validate_session call, for any token
ValidateTouches ==
    \A session_token \in Tokens :
        LET p == validate_read(AuthTables, session_token, now)
            r == validate_session(AuthTables, session_token, now)
        IN /\ r.db.employees = employees
           /\ TouchOnly(sessions, r.db.sessions, p.session_id, r.result, now)

\* the commit of a validation that other requests have overtaken
CommitTouches ==
    \A v \in pending :
        pending' = pending \ {v} =>
            TouchOnly(sessions, sessions', v.p.session_id, v.p.result, now)

\* C14: every validate_session call that returns an actor sets that session's
\* last_activity_at to the current time and changes no other field of any
\* session; a validate_session call that returns None never updates
\* last_activity_at.
C14_TouchOnSuccessOnly == []ValidateTouches /\ [][CommitTouches]_vars

\* a session validated at this reading of the clock, while an unknown token
\* and an ended session are refused
C14_Witness ==
    \E k, j \in 1..Len(sessions) :
        /\ sessions[k].is_active /\ sessions[k].last_activity_at = now
        /\ sessions[k].created_at < now
        /\ validate_session(AuthTables, sessions[k].session_token, now).result
              = sessions[k].employee_id
        /\ ~sessions[j].is_active
        /\ validate_session(AuthTables, sessions[j].session_token, now).result = None
        /\ validate_session(AuthTables, "bogus", now).result = None

\* C15: logout(token) on an active session returns true and makes it inactive;
\* logout(token) on an already-inactive session or on an unknown token returns
\* false, raises no error, and changes no field of any session.
C15_LogoutOnlyEndsActive ==
    \A session_token \in Tokens :
        LET r == logout(AuthTables, session_token, now)
            active == {k \in Named(session_token) : sessions[k].is_active}
        IN /\ r.error = NoneStr
           /\ IF active # {}
              THEN r.result = TRUE /\ \A k \in active : ~r.db.sessions[k].is_active
              ELSE r.result = FALSE /\ r.db = AuthTables

\* a second logout of a session that was logged out earlier returns True and
\* moves its logged_out_at; an unknown token returns False and changes nothing
C15_Witness ==
    \E k \in 1..Len(sessions) :
        LET r == logout(AuthTables, sessions[k].session_token, now) IN
        /\ ~sessions[k].is_active
        /\ sessions[k].logged_out_at # None /\ sessions[k].logged_out_at < now
        /\ r.result = TRUE
        /\ r.db.sessions[k].logged_out_at = now
        /\ logout(AuthTables, "bogus", now) = AuthResult(AuthTables, FALSE, NoneStr)

\* C16: logout_all_sessions(actor) returns the number of that actor's sessions
\* that were active, leaves none of them active, and leaves the sessions of
\* every other actor (and every employee row) unchanged; called again
\* immediately it returns 0 and changes nothing.
C16_LogoutAllCountsAndEnds ==
    \A employee_id \in 1..Len(employees) :
        LET mine == {k \in 1..Len(sessions) : sessions[k].employee_id = employee_id}
            active == {k \in mine : sessions[k].is_active}
            r == logout_all_sessions(AuthTables, employee_id, now)
            again == logout_all_sessions(r.db, employee_id, now)
        IN /\ r.result = Cardinality(active)
           /\ Len(r.db.sessions) = Len(sessions)
           /\ \A k \in mine : ~r.db.sessions[k].is_active
           /\ \A k \in (1..Len(sessions)) \ mine : r.db.sessions[k] = sessions[k]
           /\ r.db.employees = employees
           /\ again.result = 0 /\ again.db = r.db

\* two active sessions of one employee: the call returns 2 and ends both, and
\* the call after it returns 0
C16_Witness ==
    \E k, j \in 1..Len(sessions) :
        /\ k # j /\ sessions[k].employee_id = sessions[j].employee_id
        /\ sessions[k].is_active /\ sessions[j].is_active
        /\ LET r == logout_all_sessions(AuthTables, sessions[k].employee_id, now) IN
           /\ r.result = 2
           /\ ~r.db.sessions[k].is_active /\ ~r.db.sessions[j].is_active
           /\ logout_all_sessions(r.db, sessions[k].employee_id, now).result = 0

\* C17: change_password(actor, current, new) with a current password that does
\* not verify against the stored hash raises AuthenticationError and leaves
\* the stored password hash, every other employee column and every session
\* unchanged.
C17_WrongCurrentChangesNothing ==
    \A employee_id \in 1..Len(employees), current_password, new_password \in Passwords :
        employees[employee_id].password_hash # hash_password(current_password) =>
            LET r == change_password(AuthTables, employee_id, current_password,
                                     new_password)
            IN r.error = "Current password is incorrect" /\ r.db = AuthTables

\* alice, whose password is now "1" and who holds an active session, gives
\* her old password
C17_Witness ==
    /\ employees[3].password_hash = hash_password("1")
    /\ \E k \in 1..Len(sessions) : sessions[k].employee_id = 3 /\ sessions[k].is_active
    /\ change_password(AuthTables, 3, "0", "1")
          = AuthResult(AuthTables, None, "Current password is incorrect")

\* C18: a successful change_password(actor, current, new) replaces the stored
\* hash by one the new password verifies against, and leaves every session,
\* the actor's other concurrent sessions included, exactly as it was and as
\* valid as it was: every token validates to what it validated to before.
C18_ChangeKeepsSessions ==
    \A employee_id \in 1..Len(employees), current_password, new_password \in Passwords :
        employees[employee_id].password_hash = hash_password(current_password) =>
            LET r == change_password(AuthTables, employee_id, current_password,
                                     new_password)
            IN /\ r.error = NoneStr
               /\ r.db.employees = [employees EXCEPT ![employee_id].password_hash =
                                                       hash_password(new_password)]
               /\ verify_password(new_password, r.db.employees[employee_id].password_hash)
               /\ r.db.sessions = sessions
               /\ \A session_token \in Tokens :
                     validate_session(r.db, session_token, now).result
                        = validate_session(AuthTables, session_token, now).result

\* alice holds two sessions that validate; her change from "0" to "1" goes
\* through and both still validate
C18_Witness ==
    /\ Len(sessions) = 2
    /\ \A k \in 1..2 :
          /\ sessions[k].employee_id = 3
          /\ validate_session(AuthTables, sessions[k].session_token, now).result = 3
    /\ LET r == change_password(AuthTables, 3, "0", "1") IN
       /\ r.error = NoneStr
       /\ r.db.employees[3].password_hash # employees[3].password_hash
       /\ \A k \in 1..2 :
             validate_session(r.db, sessions[k].session_token, now).result = 3

\* the stored usernames and the usernames tried at the login form
KnownUsernames == {employees[i].username : i \in 1..Len(employees)}

\* the accounts a password can be wrong for: active, with a hash set
WithPassword ==
    {i \in 1..Len(employees) :
        employees[i].is_active /\ employees[i].password_hash \notin {NoneStr, ""}}

\* C19: authenticate raises AuthenticationError with the same error text for an
\* unknown username as for a known, active username (with a password set)
\* given a wrong password; the two outcomes are equal in every part, so the
\* two cases cannot be told apart from the result.
C19_UnknownLikeWrongPassword ==
    \A unknown \in Usernames \ KnownUsernames, i \in WithPassword, p1, p2 \in Passwords :
        employees[i].password_hash # hash_password(p2) =>
            LET a == authenticate(AuthTables, unknown, p1)
                b == authenticate(AuthTables, employees[i].username, p2)
            IN /\ a.error # NoneStr /\ a.result = None
               /\ a = b
               /\ \A session_token \in generate_session_token(AuthTables) :
                     login(AuthTables, unknown, p1, now, session_token)
                        = login(AuthTables, employees[i].username, p2, now, session_token)

\* the admin, whose password is "0", is refused with "1" exactly as the
\* unknown ghost is, while eve and the deactivated alice are in the table
C19_Witness ==
    /\ Len(employees) = 5 /\ ~employees[3].is_active
    /\ Len(sessions) > 0
    /\ authenticate(AuthTables, "admin1", "0").result = 1
    /\ authenticate(AuthTables, "admin1", "1")
          = AuthResult(AuthTables, None, "Invalid username or password")
    /\ authenticate(AuthTables, "ghost", "0") = authenticate(AuthTables, "admin1", "1")

\* the accounts that authenticate with the given credentials
Admitted(username, password) ==
    {i \in 1..Len(employees) :
        /\ employees[i].username = username
        /\ employees[i].is_active
        /\ employees[i].password_hash \notin {NoneStr, ""}
        /\ employees[i].password_hash = hash_password(password)}

\* C20: authenticate(username, password) returns the actor exactly when the
\* username exists, the account is active, a password hash is set and the
\* password verifies; in each of the four failing cases it raises
\* AuthenticationError, and a failed login (the service call and the route)
\* creates no session and changes no stored state.
C20_AuthenticateExactly ==
    \A username \in Usernames \cup KnownUsernames, password \in Passwords,
       session_token \in generate_session_token(AuthTables) :
        LET a == authenticate(AuthTables, username, password)
            l == login(AuthTables, username, password, now, session_token)
            s == login_submit(AuthTables, username, password, now, session_token)
        IN /\ a.db = AuthTables
           /\ IF Admitted(username, password) # {}
              THEN a.error = NoneStr /\ a.result \in Admitted(username, password)
              ELSE /\ a.result = None /\ a.error # NoneStr
                   /\ l = a /\ s = a

\* all four refusals in one state, next to a login that goes through: ghost
\* is unknown, alice is deactivated, eve has no password, the admin's
\* password is not "1"
C20_Witness ==
    /\ Len(sessions) > 0
    /\ authenticate(AuthTables, "ghost", "0").error = "Invalid username or password"
    /\ authenticate(AuthTables, "alice", "0").error = "Account is inactive"
    /\ authenticate(AuthTables, "eve", "0").error = "Account has no password set"
    /\ authenticate(AuthTables, "admin1", "1").error = "Invalid username or password"
    /\ authenticate(AuthTables, "admin1", "0").result = 1
    /\ login_submit(AuthTables, "eve", "0", now, "tok9").db = AuthTables

\* what every token of a stored session validates to
Validity(db) ==
    [k \in 1..Len(sessions) |->
        validate_session(db, sessions[k].session_token, now).result]

\* C21: each successful login creates a new session whose token differs from
\* the token of every existing session and leaves the existing sessions (the
\* actor's own among them) unchanged and as valid as they were; no two stored
\* sessions share a token; logging out one session leaves every other session
\* unchanged and as valid as it was.
C21_SessionsIndependent ==
    /\ \A k, j \in 1..Len(sessions) :
          sessions[k].session_token = sessions[j].session_token => k = j
    /\ \A username \in Usernames, password \in Passwords,
          session_token \in generate_session_token(AuthTables) :
          LET r == login(AuthTables, username, password, now, session_token) IN
          r.error = NoneStr =>
              /\ Len(r.db.sessions) = Len(sessions) + 1
              /\ r.db.employees = employees
              /\ r.db.sessions[r.result].employee_id
                    \in employee_by_username(AuthTables, username)
              /\ \A k \in 1..Len(sessions) :
                    /\ r.db.sessions[k] = sessions[k]
                    /\ r.db.sessions[r.result].session_token # sessions[k].session_token
              /\ Validity(r.db) = Validity(AuthTables)
    /\ \A k \in 1..Len(sessions) :
          LET r == logout(AuthTables, sessions[k].session_token, now) IN
          /\ \A j \in (1..Len(sessions)) \ {k} : r.db.sessions[j] = sessions[j]
          /\ \A j \in (1..Len(sessions)) \ {k} : Validity(r.db)[j] = Validity(AuthTables)[j]

\* alice logged in twice; her first session was logged out after the second
\* login, and the second still validates
C21_Witness ==
    /\ Len(sessions) = 2
    /\ sessions[1].employee_id = 3 /\ sessions[2].employee_id = 3
    /\ sessions[1].logged_out_at # None
    /\ sessions[1].logged_out_at > sessions[2].created_at
    /\ sessions[1].created_at < sessions[2].created_at
    /\ Validity(AuthTables)[2] = 3

\* no step removes an employee record or gives a record another id
EmployeesKept ==
    /\ Len(employees') >= Len(employees)
    /\ \A i \in 1..Len(employees) : employees'[i].employee_id = employees[i].employee_id

\* an inactive employee cannot authenticate with any password, and none of
\* their sessions validates, now or at any later reading of the clock
InactiveLockedOut ==
    \A i \in 1..Len(employees) :
        ~employees[i].is_active =>
            /\ \A password \in Passwords :
                  LET a == authenticate(AuthTables, employees[i].username, password) IN
                  a.result = None /\ a.error # NoneStr
            /\ \A k \in 1..Len(sessions), t \in now..MaxTime :
                  sessions[k].employee_id = employees[i].employee_id =>
                      validate_session(AuthTables, sessions[k].session_token, t).result = None

\* C22: once an employee's active flag is false, authenticate for that
\* employee fails and validate_session returns None for every one of their
\* sessions, in every state in which the flag is false; no step ever removes
\* an employee record.
C22_InactiveLockedOut == [][EmployeesKept]_vars /\ []InactiveLockedOut

\* alice was deactivated while she held an active session that has not
\* expired; her session no longer validates and her password is refused
C22_Witness ==
    /\ ~employees[3].is_active
    /\ \E k \in 1..Len(sessions) :
          /\ sessions[k].employee_id = 3
          /\ sessions[k].is_active
          /\ ~expired(sessions[k].expires_at, now)
          /\ validate_session(AuthTables, sessions[k].session_token, now).result = None
    /\ authenticate(AuthTables, "alice", "0").error = "Account is inactive"

\* the fields in which two snapshots differ: held by one only, or by both
\* with different values
Differ(a, b) ==
    {k \in (DOMAIN a) \cup (DOMAIN b) :
        \/ k \notin DOMAIN a
        \/ k \notin DOMAIN b
        \/ a[k] # b[k]}

DiffStatesReadsAbsentAsNull ==
    (call.fn = "diff_states" /\ call.done) =>
        LET a == call.old_state
            b == call.new_state
        IN /\ a = b => call.result = {}
           /\ call.result = diff_states(b, a)
           /\ call.result = {k \in Differ(a, b) : dict_get(a, k) # dict_get(b, k)}
           /\ (DOMAIN a = DOMAIN b) => call.result = Differ(a, b)

(************************ properties: audit service ************************)
\* the record holds no excluded field: not in old_values, not in new_values,
\* not in changed_fields
HoldsNoExcludedField(r) ==
    /\ EXCLUDED_FIELDS \cap DOMAIN r.old_values = {}
    /\ EXCLUDED_FIELDS \cap DOMAIN r.new_values = {}
    /\ EXCLUDED_FIELDS \cap r.changed_fields = {}

\* the employee as it may have been before an update: another role, another
\* active flag, another password hash
EarlierVersions(e) ==
    {[e EXCEPT !.role = role, !.is_active = is_active, !.password_hash = password_hash] :
        role \in Roles, is_active \in BOOLEAN, password_hash \in {"h0", "h1", NoneStr}}

\* the records the four log calls add for an employee, with the old snapshot
\* of log_update drawn from olds(employee)
LoggedRecords(olds(_)) ==
    LET S == SessionLocal(Tables) IN
    UNION {{Last(T.w.ledger) : T \in {T \in
              {log_insert(S, 1, "employees", employees[i]),
               log_delete(S, 1, "employees", employees[i]),
               log_restore(S, 1, "employees", employees[i])}
              \cup {log_update(S, 1, "employees", employees[i], old_state) :
                        old_state \in olds(employees[i])} :
              Len(T.w.ledger) > Len(ledger)}} : i \in 1..Len(employees)}

\* old snapshots taken with capture_state, as log_update asks for
CapturedSnapshots(e) == {capture_state("employees", v) : v \in EarlierVersions(e)}

\* old snapshots a caller built from the whole row
WholeRowSnapshots(e) == {capture_state_all_columns("employees", v) : v \in EarlierVersions(e)}

LogCallsOnSessionRow(k) ==
    LET S == SessionLocal(Tables) IN
    UNION {{log_insert(S, performed_by, "user_sessions", sessions[k]),
            log_delete(S, performed_by, "user_sessions", sessions[k]),
            log_restore(S, performed_by, "user_sessions", sessions[k]),
            log_update(S, performed_by, "user_sessions", sessions[k], NoValues),
            log_update(S, performed_by, "user_sessions", sessions[k],
                       [is_active |-> "true"])} : performed_by \in 1..Len(employees)}

\* C25: log_insert, log_update, log_delete and log_restore called for a record
\* whose table is not on the audited allow-list (a user_sessions row) add
\* nothing to the session (they return None), raise no error, and leave the
\* ledger unchanged when the session is committed.
C25_UnlistedTableNotLogged ==
    /\ "user_sessions" \notin AUDITED_TABLES
    /\ \A k \in 1..Len(sessions) :
          \A T \in LogCallsOnSessionRow(k) :
              /\ T = SessionLocal(Tables)
              /\ db_close(db_commit(T, now)) = Tables

\* two sessions are stored and the ledger holds records of audited tables; a
\* log call for either session adds nothing
C25_Witness ==
    /\ Len(sessions) = 2
    /\ Len(ledger) >= 1
    /\ \A T \in LogCallsOnSessionRow(2) : T.w.ledger = ledger

\* the presence of old_values, new_values and changed_fields in record r
\* (absent is NULL in the column)
HasOld(r) == DOMAIN r.old_values # {}
HasNew(r) == DOMAIN r.new_values # {}
HasChanged(r) == r.changed_fields # {}

\* C26: every audit record has action in {INSERT, UPDATE, DELETE, RESTORE};
\* INSERT and RESTORE records have new_values and no old_values; DELETE
\* records have old_values and no new_values; UPDATE records have both;
\* changed_fields is set only on UPDATE records (and on each of them).
C26_RecordShape ==
    \A k \in 1..Len(ledger) :
        LET r == ledger[k] IN
        /\ r.action \in {"INSERT", "UPDATE", "DELETE", "RESTORE"}
        /\ r.action \in {"INSERT", "RESTORE"} => HasNew(r) /\ ~HasOld(r)
        /\ r.action = "DELETE" => HasOld(r) /\ ~HasNew(r)
        /\ r.action = "UPDATE" => HasOld(r) /\ HasNew(r)
        /\ HasChanged(r) <=> r.action = "UPDATE"

\* an entry was created, updated and deleted: the ledger holds an INSERT
\* record with new values only, an UPDATE record with both and its changed
\* fields, and a DELETE record with old values only
C26_Witness ==
    /\ Len(ledger) = 3
    /\ ledger[1].action = "INSERT" /\ HasNew(ledger[1]) /\ ~HasOld(ledger[1])
    /\ ledger[2].action = "UPDATE" /\ HasOld(ledger[2]) /\ HasChanged(ledger[2])
    /\ ledger[3].action = "DELETE" /\ HasOld(ledger[3]) /\ ~HasNew(ledger[3])

\* C27: listing the ledger in the order its records were appended (audit_id
\* order), performed_at never decreases, including when two transactions
\* write audit records concurrently and commit in either order.
C27_PerformedAtMonotone ==
    \A k \in 1..(Len(ledger) - 1) :
        /\ ledger[k].audit_id < ledger[k + 1].audit_id
        /\ ledger[k].performed_at <= ledger[k + 1].performed_at

\* two requests flushed side by side: the one that read the clock first
\* reached the database last, so the row with the larger audit_id has the
\* smaller performed_at
C27_Witness ==
    /\ Len(ledger) = 2
    /\ ledger[1].audit_id < ledger[2].audit_id
    /\ ledger[1].performed_at > ledger[2].performed_at

\* the arguments the queries are asked with
QueryTables == {"employees", "time_entries"}
QueryDates == 0..(MaxTime \div TicksPerDay)
QueryLimits == 0..2

\* the calendar day of a clock reading
DateOf(t) == t \div TicksPerDay

\* s lists each of its rows once, oldest first / newest first
OldestFirst(s) ==
    /\ \A j, k \in 1..Len(s) : s[j] = s[k] => j = k
    /\ \A j, k \in 1..Len(s) : j < k => s[j].performed_at <= s[k].performed_at
NewestFirst(s) ==
    /\ \A j, k \in 1..Len(s) : s[j] = s[k] => j = k
    /\ \A j, k \in 1..Len(s) : j < k => s[j].performed_at >= s[k].performed_at

\* C28: get_record_history(table, id) returns exactly the audit records of
\* that table and record id, oldest first; get_changes_in_date_range returns
\* exactly the records whose performed_at lies on a day from start_date to
\* end_date (both inclusive), oldest first; get_changes_by_user and
\* get_recent_changes return matching records only, newest first and at most
\* limit of them (get_recent_changes the newest ones); whatever listing the
\* database gives for records of equal performed_at.
C28_AuditQueries ==
    /\ \A table_name \in QueryTables, record_id \in {3, 4} :
          \A s \in get_record_history(ledger, table_name, record_id) :
              /\ Rows(s) = {r \in Rows(ledger) : /\ r.table_name = table_name
                                                 /\ r.record_id = record_id}
              /\ OldestFirst(s)
    /\ \A start_date \in QueryDates, end_date \in QueryDates,
          table_name \in QueryTables \cup {NoneStr} :
          \A s \in get_changes_in_date_range(ledger, start_date, end_date, table_name) :
              /\ Rows(s) = {r \in Rows(ledger) :
                               /\ DateOf(r.performed_at) \in start_date..end_date
                               /\ table_name \in {NoneStr, r.table_name}}
              /\ OldestFirst(s)
    /\ \A employee_id \in {1, 2}, limit \in QueryLimits, offset \in 0..1 :
          \A s \in get_changes_by_user(ledger, employee_id, limit, offset) :
              /\ Rows(s) \subseteq {r \in Rows(ledger) : r.performed_by = employee_id}
              /\ NewestFirst(s)
              /\ Len(s) <= limit
    /\ \A hours \in 0..MaxTime, table_name \in QueryTables \cup {NoneStr},
          action \in {"INSERT", "DELETE", NoneStr}, limit \in QueryLimits :
          \A s \in get_recent_changes(ledger, now, hours, table_name, action, limit) :
              LET matching == {r \in Rows(ledger) :
                                  /\ r.performed_at >= now - hours
                                  /\ table_name \in {NoneStr, r.table_name}
                                  /\ action \in {NoneStr, r.action}}
              IN /\ Rows(s) \subseteq matching
                 /\ NewestFirst(s)
                 /\ Len(s) <= limit
                 /\ \A r \in matching \ Rows(s), q \in Rows(s) :
                       r.performed_at <= q.performed_at

\* three records written on two days by two users, the history of employee 3
\* lists a record of larger audit_id before one of smaller audit_id, the range
\* query for day 0 leaves out the records of day 1, and a query by user with
\* limit 1 leaves out a matching record
C28_Witness ==
    /\ Len(ledger) = 3
    /\ \E s \in get_record_history(ledger, "employees", 3) :
          Len(s) = 2 /\ s[1].audit_id > s[2].audit_id
    /\ \E s \in get_changes_in_date_range(ledger, 0, 0, NoneStr) : Len(s) = 1
    /\ \E s \in get_changes_in_date_range(ledger, 0, 1, "employees") : Len(s) = 3
    /\ \E s \in get_changes_by_user(ledger, 1, 1, 0) :
          Len(s) = 1 /\ Cardinality({r \in Rows(ledger) : r.performed_by = 1}) = 2

(********************** properties: entry validation ***********************)
\* the references a request may name: stored and unknown employees, active,
\* inactive and unknown work codes
EmployeeRefs == 1..(MaxEmployees + 1)
WorkCodeRefs == 1..4

EmployeeValid(employee_id) ==
    employee_id \in 1..Len(employees) /\ employees[employee_id].is_active
WorkCodeValid(work_code_id) ==
    work_code_id \in DOMAIN WorkCodes /\ WorkCodes[work_code_id]

\* C29: create_entry for a target employee that does not exist or is inactive,
\* or with a work code that does not exist or is inactive, and update_entry
\* with such a work code, fail with a validation error that names the invalid
\* reference, and leave the session as it was: no time entry and no audit
\* record is created or changed.
C29_InvalidReferenceRefused ==
    LET S == SessionLocal(Tables) IN
    /\ \A user \in ServiceUsers, employee_id \in EmployeeRefs, work_code_id \in WorkCodeRefs,
          tm \in CreateTimes :
          LET r == create_entry(S, user, now, employee_id, work_code_id, tm[1], tm[2],
                                NoneStr, "none")
              error == create_entry_error(S, employee_id, work_code_id, tm[1], tm[2])
          IN /\ ~EmployeeValid(employee_id) =>
                    /\ r.status = "validation" /\ r.S = S
                    /\ error = "Employee " \o ToString(employee_id) \o " not found or inactive"
             /\ (EmployeeValid(employee_id) /\ ~WorkCodeValid(work_code_id)) =>
                    /\ r.status = "validation" /\ r.S = S
                    /\ error = "Work code " \o ToString(work_code_id) \o " not found or inactive"
    /\ \A user \in ServiceUsers, id \in 1..Len(entries), work_code_id \in WorkCodeRefs,
          a \in UpdateArgs :
          LET r == update_entry(S, user, now, id, work_code_id, a.start_time, a.end_time,
                                a.notes, "none")
              u == update_fields(entries[id], user, now, work_code_id, a.start_time,
                                 a.end_time, a.notes)
          IN (~entries[id].is_deleted /\ ~WorkCodeValid(work_code_id)) =>
                 /\ r.status = "validation" /\ r.S = S
                 /\ u.error = "Work code " \o ToString(work_code_id) \o " not found or inactive"

\* alice is inactive and has an active entry: a new entry for her is refused
\* naming her, and an update of her entry to the inactive work code 3 is
\* refused naming the work code
C29_Witness ==
    /\ ~employees[3].is_active
    /\ Len(entries) >= 1 /\ ~entries[1].is_deleted /\ entries[1].employee_id = 3
    /\ create_entry_error(SessionLocal(Tables), 3, 1, 480, 960)
          = "Employee 3 not found or inactive"
    /\ create_entry(SessionLocal(Tables), 1, now, 3, 1, 480, 960, NoneStr, "none").status
          = "validation"
    /\ update_entry(SessionLocal(Tables), 1, now, 1, 3, None, None, NoneStr, "none").status
          = "validation"
    /\ update_fields(entries[1], 1, now, 3, None, None, NoneStr).error
          = "Work code 3 not found or inactive"

\* the (start, end) pairs a request may give, in minutes: around equality,
\* around 15 minutes and around 24 hours
TimePairs ==
    {<<start_time, start_time + d>> :
        start_time \in {480},
        d \in {0 - 60, 0 - 1, 0, 1, 14, 15, 16, 480, MinutesPerDay - 1, MinutesPerDay,
               MinutesPerDay + 1}}

\* the pairs the claim accepts
Accepted(start_time, end_time) ==
    /\ end_time > start_time
    /\ end_time - start_time >= 15
    /\ end_time - start_time <= MinutesPerDay

ManagersAbove(E, i) ==
    LET up[n \in 0..Len(E)] ==
            IF n = 0 THEN {}
            ELSE up[n - 1] \cup
                 {E[j].manager_id : j \in {k \in up[n - 1] \cup {i} : k \in 1..Len(E)}}
    IN up[Len(E)] \ {None}

\* C31: after any sequence of create_employee and update_employee requests
\* the manager references form a forest: no employee is their own manager and
\* following manager references from an employee never returns to them.
C31_ManagerForest ==
    \A i \in 1..Len(employees) : i \notin ManagersAbove(employees, i)

\* an admin has committed an update that closed a cycle of two employees
C31_Witness ==
    /\ lastOp.op = "update_employee"
    /\ employees[2].manager_id = 3
    /\ employees[3].manager_id = 2


(*************************** C32: role gates *******************************)
\* the order of the roles: employee < manager < admin
RoleRank == [r \in Roles |-> CASE r = "employee" -> 0 [] r = "manager" -> 1 [] OTHER -> 2]
is_at_least(role, threshold) == RoleRank[role] >= RoleRank[threshold]

\* an admin-only request of user e on employee i, and a manager-only request
\* of user e for employee i
AdminOnly(e, i) ==
    update_employee(SessionLocal(Tables), e, now, i, "zed", "Z", "Z", NoneStr,
                    "employee", "", TRUE, "none")
ManagerOnly(e, i) ==
    create_team_entry(SessionLocal(Tables), e, now, i, 1, 480, 960, NoneStr, "none")

\* C32: the manager-only gate lets through exactly the users whose role is at
\* least manager, the admin-only gate exactly the users whose role is at least
\* admin, and a user below the threshold is refused with 403 whatever the
\* target record is (their own, another employee's, one that does not exist).
C32_RoleGates ==
    \A u \in 1..Len(employees) :
        LET e == employees[u] IN
        /\ require_manager(e) <=> is_at_least(e.role, "manager")
        /\ require_manager(e) <=> e.role \in {"manager", "admin"}
        /\ require_admin(e) <=> is_at_least(e.role, "admin")
        /\ require_admin(e) <=> e.role = "admin"
        /\ \A i \in {u, 4, 9} :
              /\ ~require_admin(e) => EndsWith(AdminOnly(e, i), "403")
              /\ ~require_manager(e) => EndsWith(ManagerOnly(e, i), "403")
        /\ require_admin(e) => AdminOnly(e, 4).status = "ok" /\ AdminOnly(e, 9).status = "404"
        /\ require_manager(e) => ManagerOnly(e, u).status = IF e.is_active THEN "ok" ELSE "400"

\* bob has been made an admin and admin1 a manager: the gates follow the roles
C32_Witness ==
    /\ employees[1].role = "manager" /\ employees[2].role = "admin"
    /\ employees[3].role = "employee"
    /\ require_manager(employees[1]) /\ ~require_admin(employees[1])
    /\ require_admin(employees[2])
    /\ EndsWith(AdminOnly(employees[1], 1), "403")
    /\ EndsWith(ManagerOnly(employees[3], 3), "403")


(********************** C33: when snapshots are taken **********************)
\* the record a call added to its session, as a set (empty when it added none)
AddedRecords(S, r) ==
    {r.S.w.ledger[k] : k \in (Len(S.w.ledger) + 1)..Len(r.S.w.ledger)}

\* C33: the UPDATE record of an update_entry call holds in old_values the
\* entry as it was just before the call and in new_values the entry as it is
\* just after it (and after the caller's commit); the DELETE record of a
\* delete_entry call holds in old_values the entry before the soft delete, so
\* with is_deleted = false.
C33_SnapshotOrder ==
    LET S == SessionLocal(Tables) IN
    \A user \in ServiceUsers, id \in 1..Len(entries) :
        /\ \A a \in UpdateArgs :
              LET r == update_entry(S, user, now, id, a.work_code_id, a.start_time,
                                    a.end_time, a.notes, "none")
              IN \A rec \in AddedRecords(S, r) :
                    /\ rec.action = "UPDATE" /\ rec.record_id = id
                    /\ rec.old_values = capture_state("time_entries", entries[id])
                    /\ rec.new_values = capture_state("time_entries", r.S.w.entries[id])
                    /\ rec.new_values = capture_state("time_entries",
                                             db_close(caller_commit(r, now, "none").S).entries[id])
        /\ LET r == delete_entry(S, user, now, id, "none")
           IN \A rec \in AddedRecords(S, r) :
                 /\ rec.action = "DELETE" /\ rec.record_id = id
                 /\ rec.old_values = capture_state("time_entries", entries[id])
                 /\ rec.old_values["is_deleted"] = serialize_value("bool", FALSE)
                 /\ r.S.w.entries[id].is_deleted

\* an entry was updated and then deleted: the ledger holds its UPDATE record
\* with both snapshots and its DELETE record with the snapshot before the
\* delete
C33_Witness ==
    /\ Len(entries) >= 1 /\ entries[1].is_deleted
    /\ Len(ledger) = 3
    /\ ledger[2].action = "UPDATE" /\ ledger[3].action = "DELETE"
    /\ ledger[2].new_values # ledger[2].old_values
    /\ ledger[3].old_values = ledger[2].new_values
    /\ ledger[3].old_values["is_deleted"] = serialize_value("bool", FALSE)


(************************* C34: changed_fields *****************************)
\* changed_fields of record rec is non-empty and names exactly the fields
\* whose values differ between its two snapshots
ExactDiff(rec) ==
    /\ rec.changed_fields # {}
    /\ DOMAIN rec.old_values = DOMAIN rec.new_values
    /\ rec.changed_fields =
          {f \in DOMAIN rec.old_values : rec.old_values[f] # rec.new_values[f]}

\* the end times a request moves an entry to
MovedEnds == {975, 990}

\* C34: every UPDATE record has a non-empty changed_fields that is exactly the
\* set of fields whose values differ between old_values and new_values; an
\* update_entry that moves end_time so that the computed hours change names
\* end_time and hours, with the old hours in old_values and the new hours in
\* new_values.
C34_ChangedFieldsExact ==
    /\ \A k \in 1..Len(ledger) : ledger[k].action = "UPDATE" => ExactDiff(ledger[k])
    /\ \A user \in ServiceUsers, id \in 1..Len(entries), end_time \in MovedEnds :
          LET S == SessionLocal(Tables)
              e == entries[id]
              r == update_entry(S, user, now, id, None, None, end_time, NoneStr, "none")
              moved == set_times_and_compute_hours(e, e.start_time, end_time)
          IN (~e.is_deleted /\ moved.hours # e.hours) =>
                /\ r.status = "ok"
                /\ Cardinality(AddedRecords(S, r)) = 1
                /\ \A rec \in AddedRecords(S, r) :
                      /\ rec.action = "UPDATE" /\ ExactDiff(rec)
                      /\ {"end_time", "hours"} \subseteq rec.changed_fields
                      /\ rec.old_values["hours"] = serialize_value("decimal", e.hours)
                      /\ rec.new_values["hours"] = serialize_value("decimal", moved.hours)
                      /\ rec.old_values["end_time"] = serialize_value("datetime", e.end_time)
                      /\ rec.new_values["end_time"] = serialize_value("datetime", end_time)

\* an entry of 08:00-16:00 was moved to end at 16:30: its UPDATE record names
\* end_time and hours, 8.00 before and 8.50 after
C34_Witness ==
    /\ lastOp.op = "update_entry"
    /\ Len(ledger) >= 2 /\ Last(ledger).action = "UPDATE"
    /\ Last(ledger).table_name = "time_entries"
    /\ {"end_time", "hours"} \subseteq Last(ledger).changed_fields
    /\ "start_time" \notin Last(ledger).changed_fields
    /\ Last(ledger).old_values["hours"] = serialize_value("decimal", 800)
    /\ Last(ledger).new_values["hours"] = serialize_value("decimal", 850)


(*************************** C35: audit chain ******************************)
\* the position of the closest record before position k of recs that holds
\* new values (INSERT, UPDATE or RESTORE); 0 when there is none
EarlierNew(recs, k) ==
    LET P == {j \in 1..(k - 1) : recs[j].action \in {"INSERT", "UPDATE", "RESTORE"}}
    IN IF P = {} THEN 0 ELSE CHOOSE j \in P : \A q \in P : q <= j

\* in ledger order, the old values of every UPDATE or DELETE record of entry
\* id are the new values of the closest earlier INSERT, UPDATE or RESTORE
\* record of that entry
AuditChain(id) ==
    LET recs == RecordsOf("time_entries", id) IN
    \A k \in 1..Len(recs) :
        recs[k].action \in {"UPDATE", "DELETE"} =>
            /\ EarlierNew(recs, k) # 0
            /\ recs[k].old_values = recs[EarlierNew(recs, k)].new_values

\* C35: for each time entry the audit records chain: no state change goes
\* unrecorded between two records, also when two update_entry requests on the
\* same entry interleave.
C35_AuditChain == \A id \in 1..Len(entries) : AuditChain(id)

\* two update_entry requests loaded entry 1 before either committed: the row
\* holds both changes, and both UPDATE records start from the INSERT's values
C35_Witness ==
    /\ Len(entries) = 1 /\ Len(ledger) = 3 /\ txns = {}
    /\ ledger[1].action = "INSERT" /\ ledger[2].action = "UPDATE"
    /\ ledger[3].action = "UPDATE"
    /\ ledger[2].old_values = ledger[1].new_values
    /\ ledger[3].old_values = ledger[1].new_values
    /\ ledger[2].new_values # ledger[1].new_values
    /\ entries[1].work_code_id = 2 /\ entries[1].end_time = 990
    /\ capture_state("time_entries", entries[1]) \notin
          {ledger[2].new_values, ledger[3].new_values}


(******************** C36: update_entry that raises ************************)
\* the update_entry calls of C36: each optional argument given or omitted,
\* valid or invalid
RefusedArgs ==
    { UpdateArg(2, None, 470, NoneStr), UpdateArg(3, None, None, NoneStr),
      UpdateArg(None, None, 470, NoneStr), UpdateArg(2, 480, 490, "late"),
      UpdateArg(2, None, 990, NoneStr) }

\* C36: an update_entry call that raises a validation error leaves every
\* field of the entry as it was before the call and adds no audit record.
C36_RefusedUpdateChangesNothing ==
    \A user \in ServiceUsers, id \in 1..Len(entries), a \in RefusedArgs :
        LET r == update_entry(SessionLocal(Tables), user, now, id, a.work_code_id,
                              a.start_time, a.end_time, a.notes, "none")
        IN r.status = "validation" =>
              /\ r.S.w.entries[id] = entries[id]
              /\ r.S.w.ledger = ledger

\* entry 1 has work code 1; update_entry with work code 2 and an end before
\* the start raises the time error, the entry of the session holds work code
\* 2, no audit record was added, and a commit of that session would store it
C36_Witness ==
    /\ Len(entries) >= 1 /\ ~entries[1].is_deleted /\ entries[1].work_code_id = 1
    /\ LET r == update_entry(SessionLocal(Tables), 1, now, 1, 2, None, 470, NoneStr, "none")
       IN /\ r.status = "validation"
          /\ r.S.w.entries[1].work_code_id = 2
          /\ r.S.w.ledger = ledger
          /\ db_close(r.S) = Tables
          /\ db_close(db_commit(r.S, now)).entries[1].work_code_id = 2
          /\ db_close(db_commit(r.S, now)).ledger = ledger


(************************ C37: the last admin ******************************)
ActiveAdmins(E) == {i \in 1..Len(E) : E[i].role = "admin" /\ E[i].is_active}

\* the update_employee forms user u may post that touch their own account
OwnAccountRefused(u) ==
    \A o \in {"manager", "employee", "inactive"} :
        LET form == EmployeeForm(u, o) IN
        EndsWith(update_employee(SessionLocal(Tables), employees[u], now, u,
                                 form.username, form.first_name, form.last_name,
                                 form.email, form.role, form.manager_id,
                                 form.is_active, "none"), "400")

\* C37: an active admin exists at the start, and after any sequence or
\* interleaving of admin update_employee requests an active admin still
\* exists; an admin's request to change their own role away from admin or to
\* deactivate their own account is rejected, changes no employee and writes
\* no audit record.
C37_ActiveAdminRemains ==
    /\ ActiveAdmins(employees) # {}
    /\ \A u \in ActiveAdmins(employees) : OwnAccountRefused(u)

\* the rejection half on its own: it holds in every reachable state
C37_OwnAccountRefused ==
    \A u \in ActiveAdmins(employees) : OwnAccountRefused(u)

\* admin1 and bob, both admins, each posted the other's demotion before
\* either commit: both commits went through and no admin is left
C37_Witness ==
    /\ txns = {} /\ ActiveAdmins(employees) = {}
    /\ employees[1].role = "manager" /\ employees[2].role = "manager"
    /\ employees[1].is_active /\ employees[2].is_active
    /\ lastOp.op = "update_employee"
    /\ Len(ledger) = 3


(************* C38: the session of an inactive employee ********************)
\* the rows the identity service reads once admin1 has set employee i active
\* again through the admin form
Reactivated(i) ==
    LET form == EmployeeForm(i, "active")
        r == update_employee(SessionLocal(Tables), employees[1], now, i,
                             form.username, form.first_name, form.last_name,
                             form.email, form.role, form.manager_id,
                             form.is_active, "none")
    IN [employees |-> db_close(r.S).employees, sessions |-> sessions]

\* session k is active and unexpired and belongs to the inactive employee i
HeldByInactive(k, i) ==
    /\ sessions[k].is_active /\ ~expired(sessions[k].expires_at, now)
    /\ sessions[k].employee_id = employees[i].employee_id
    /\ ~employees[i].is_active

\* validate_session on session k returns None and writes nothing; once the
\* employee is active again the same token validates at every reading of the
\* clock up to the expiry, and only last_activity_at of that session changes
ValidatesAgain(k, i) ==
    LET token == sessions[k].session_token
        v == validate_session(AuthTables, token, now)
    IN /\ v.result = None
       /\ v.db = AuthTables
       /\ \A t \in now..MaxTime :
             ~expired(sessions[k].expires_at, t) =>
                LET w == validate_session(Reactivated(i), token, t) IN
                /\ w.result = employees[i].employee_id
                /\ w.db.sessions =
                      [sessions EXCEPT ![k] = [@ EXCEPT !.last_activity_at = t]]

\* C38: validate_session on an unexpired, active session whose employee is
\* inactive returns None and changes no field of the session, so when the
\* employee is reactivated before the expiry the same token validates again.
C38_InactiveKeepsSession ==
    \A k \in 1..Len(sessions), i \in 1..Len(employees) :
        HeldByInactive(k, i) => ValidatesAgain(k, i)

\* alice was deactivated while she held an unexpired session: validating it
\* returns None and leaves the session as it is, and it validates again once
\* admin1 has reactivated her
C38_Witness ==
    /\ employees[1].is_active
    /\ \E k \in 1..Len(sessions) :
          /\ HeldByInactive(k, 3)
          /\ sessions[k].last_activity_at < now
          /\ validate_read(AuthTables, sessions[k].session_token, now).write = "none"
          /\ ValidatesAgain(k, 3)
          /\ Reactivated(3).employees[3].is_active


(************************ C39: unique usernames ****************************)
\* the usernames a form may carry for the stored username "alice"
TakenSpellings == {"alice", " alice"}

\* no two employees store the same username
StoredUsernamesUnique ==
    \A i, j \in 1..Len(employees) :
        employees[i].username = employees[j].username => i = j

\* admin u posts the create form, or the update form of employee 4, with the
\* given username
CreateWith(u, username) ==
    create_employee(SessionLocal(Tables), employees[u], now, username, "Eve", "E",
                    NoneStr, "employee", "2", "none")
UpdateWith(u, username) ==
    LET form == EmployeeForm(4, "same") IN
    update_employee(SessionLocal(Tables), employees[u], now, 4, username,
                    form.first_name, form.last_name, form.email, form.role,
                    form.manager_id, form.is_active, "none")

\* C39: after any sequence or interleaving of create_employee and
\* update_employee requests no two employees have the same stored username,
\* and a request whose trimmed, lower-cased username is that of another
\* employee is rejected with a validation error (400) and changes nothing.
C39_UsernameTakenRejected ==
    /\ StoredUsernamesUnique
    /\ \A u \in ActiveAdmins(employees), username \in TakenSpellings :
          (\E i \in 1..Len(employees) :
               i # 4 /\ employees[i].username = strip_lower(username)) =>
             /\ EndsWith(CreateWith(u, username), "400")
             /\ EndsWith(UpdateWith(u, username), "400")

\* the first half on its own, with what the database does for the second:
\* such a request never stores anything
C39_NothingStored ==
    /\ StoredUsernamesUnique
    /\ \A u \in ActiveAdmins(employees), username \in TakenSpellings :
          /\ db_close(CreateWith(u, username).S) = Tables
          /\ db_close(UpdateWith(u, username).S) = Tables

\* "alice" is stored; the form with " alice" passes the handler's lookup and
\* ends at the unique index, the form with "alice" ends in the 400; and of
\* two create requests for "eve" that ran side by side one was stored
C39_Witness ==
    /\ employees[3].username = "alice" /\ employees[1].role = "admin"
    /\ employees[1].is_active
    /\ CreateWith(1, " alice").status = "IntegrityError"
    /\ UpdateWith(1, " alice").status = "IntegrityError"
    /\ CreateWith(1, "alice").status = "400"
    /\ lastOp.op = "IntegrityError"
    /\ Len(employees) = 5 /\ employees[5].username = "eve"

====
